---------------------------- MODULE Spec2Model ----------------------------
(***************************************************************************)
(* A model of the keybind allocation engine: the greedy allocator          *)
(* (Optimizer.allocate and its helpers), the friction cost function        *)
(* (calculateFriction) and the simulated-annealing optimizer (optimizeSA). *)
(*                                                                         *)
(* Numbers.  The engine computes in IEEE doubles.  The inputs of this      *)
(* model are integer key scores, integer reaches and use frequencies that  *)
(* are multiples of 10, for which every product with 0.1, 0.05 and 0.5     *)
(* the code forms is a correctly rounded double equal to the exact         *)
(* rational value; those values are carried here as scaled integers.       *)
(***************************************************************************)
EXTENDS Integers, Sequences, FiniteSets, TLC

VARIABLES
    actions,          \* the action list passed in
    scoredKeys,       \* the scored-key list passed in
    fingerConfig,     \* FingerConfigMap: finger -> [restingKey, reach, exclusiveKeys]
    movementConfig,   \* [verticalAxis, horizontalAxis]
    availableFingers, \* Optimizer.allocate: Set<Finger>
    lockedBinds,      \* the caller's lock map, action name -> key code
    pc,               \* position inside allocate
    passLocks,        \* the lock map of the running pass (lockedBinds or newLocks)
    idx,              \* allocatePass: index of the next action of sortedActions
    bindings,         \* allocatePass: bindings pushed so far
    boundKeys,        \* allocatePass: keys of the bindings pushed so far
    fingerLoad,       \* allocatePass: finger -> accumulated useFrequency
    actionFingerMap,  \* allocatePass: action name -> fingers recorded for it
    firstPass,        \* allocate: firstPassResult, once the first pass is over
    result,           \* allocate: the returned bindings
    penalties,        \* PenaltyConfig passed to calculateFriction and optimizeSA
    frictionContext,  \* the FrictionContext built from the four inputs above
    layouts,          \* calculateFriction: the two layouts scored
    frictions,        \* calculateFriction: what it returned for each, times ten
    options,          \* optimizeSA: SAOptions
    dateNow,          \* what Date.now() returns to each call of optimizeSA
    phase,            \* optimizeSA: position of each call
    rng,              \* optimizeSA: the state of the SeededRandom of each call
    current,          \* optimizeSA: the loop variables of each call
    currentScore,
    best,
    bestScore,
    temp,
    trajectory,       \* what each iteration so far drew, proposed and decided
    returned,         \* optimizeSA: the layout each call returned
    initial,          \* optimizeSA: the warm start of the inputs and its friction
    call,             \* the call of getDistance, getNearbyKeys or scoreKeys
    cursor,           \* its position: the next query, key of sortedKeysX or key code
    answer,           \* what it has computed so far, and returns
    keyPc             \* whether it has returned

vars == << actions, scoredKeys, fingerConfig, movementConfig, availableFingers,
           lockedBinds, pc, passLocks, idx, bindings, boundKeys, fingerLoad,
           actionFingerMap, firstPass, result, penalties, frictionContext, layouts, frictions, options,
           dateNow, phase, rng, current, currentScore, best, bestScore, temp,
           trajectory, returned, initial, call, cursor, answer, keyPc >>

allocateVars == << pc, passLocks, idx, bindings, boundKeys, fingerLoad, actionFingerMap,
                   firstPass, result >>

frictionVars == << frictionContext, layouts, frictions >>

searchVars == << options, dateNow, phase, rng, current, currentScore, best, bestScore,
                 temp, trajectory, returned, initial >>

keyVars == << call, cursor, answer, keyPc >>

-----------------------------------------------------------------------------
(* types.ts: the closed enumerations *)

Fingers ==
    { "LeftPinky", "LeftRing", "LeftMiddle", "LeftIndex", "LeftThumb",
      "RightThumb", "RightIndex", "RightMiddle", "RightRing", "RightPinky" }

DIRECTIONAL == "DIRECTIONAL"
COMBAT == "COMBAT"

\* The finger recorded for a locked key that has no score.
DefaultFinger == "RightIndex"

-----------------------------------------------------------------------------
(* JavaScript strings: toLowerCase and includes, character by character *)

UpperLetters == "ABCDEFGHIJKLMNOPQRSTUVWXYZ"
LowerLetters == "abcdefghijklmnopqrstuvwxyz"

LowerChar(c) ==
    IF \E i \in 1..Len(UpperLetters) : SubSeq(UpperLetters, i, i) = c
    THEN LET i == CHOOSE j \in 1..Len(UpperLetters) : SubSeq(UpperLetters, j, j) = c
         IN  SubSeq(LowerLetters, i, i)
    ELSE c

RECURSIVE ToLowerCase(_)
ToLowerCase(s) ==
    IF Len(s) = 0 THEN ""
    ELSE LowerChar(SubSeq(s, 1, 1)) \o ToLowerCase(SubSeq(s, 2, Len(s)))

Includes(s, w) ==
    \E i \in 1..(Len(s) - Len(w) + 1) : SubSeq(s, i, i + Len(w) - 1) = w

-----------------------------------------------------------------------------
(* Sequences as JavaScript arrays *)

Range(s) == { s[i] : i \in 1..Len(s) }

RECURSIVE FilterSeq(_, _)
\* Array.prototype.filter with the predicate given as the set of kept elements
FilterSeq(s, keep) ==
    IF s = << >> THEN << >>
    ELSE IF Head(s) \in keep THEN << Head(s) >> \o FilterSeq(Tail(s), keep)
         ELSE FilterSeq(Tail(s), keep)

\* Array.prototype.find: the index of the first element in `want`, 0 when none
FindIndex(s, want) ==
    IF \E i \in 1..Len(s) : s[i] \in want
    THEN CHOOSE i \in 1..Len(s) : s[i] \in want /\ \A j \in 1..(i - 1) : s[j] \notin want
    ELSE 0

-----------------------------------------------------------------------------
(* The greedy allocator: class Optimizer *)

\* JavaScript Map.set on a map held as a function
MapSet(m, k, v) == [x \in (DOMAIN m) \cup {k} |-> IF x = k THEN v ELSE m[x]]

EmptyMap == [x \in {} |-> 0]

\* Map.values() as a set
MapValues(m) == { m[k] : k \in DOMAIN m }

RECURSIVE InsertByFrequency(_, _)
\* where a stable descending sort puts `a` among the already sorted earlier elements
InsertByFrequency(sorted, a) ==
    IF sorted = << >> THEN << a >>
    ELSE IF Head(sorted).useFrequency >= a.useFrequency
         THEN << Head(sorted) >> \o InsertByFrequency(Tail(sorted), a)
         ELSE << a >> \o sorted

RECURSIVE SortFrom(_, _)
SortFrom(sorted, rest) ==
    IF rest = << >> THEN sorted
    ELSE SortFrom(InsertByFrequency(sorted, Head(rest)), Tail(rest))

RECURSIVE InsertAscending(_, _)
InsertAscending(sorted, a) ==
    IF sorted = << >> THEN << a >>
    ELSE IF Head(sorted).useFrequency <= a.useFrequency
         THEN << Head(sorted) >> \o InsertAscending(Tail(sorted), a)
         ELSE << a >> \o sorted

RECURSIVE SortAscendingFrom(_, _)
SortAscendingFrom(sorted, rest) ==
    IF rest = << >> THEN sorted
    ELSE SortAscendingFrom(InsertAscending(sorted, Head(rest)), Tail(rest))

\* Mutant: the comparator with its operands exchanged (a - b), lowest first.
sortActionsAscending(acts) == SortAscendingFrom(<< >>, acts)

\* [...actions].sort((a, b) => b.useFrequency - a.useFrequency), a stable sort
sortActionsByFrequency(acts) == SortFrom(<< >>, acts)

buildMovementKeySet(config) ==
    { config.verticalAxis.positiveKey, config.verticalAxis.negativeKey,
      config.horizontalAxis.positiveKey, config.horizontalAxis.negativeKey }

buildExclusiveMovementFingers(config) ==
    (IF config.verticalAxis.isExclusive THEN Range(config.verticalAxis.fingers) ELSE {})
    \cup
    (IF config.horizontalAxis.isExclusive THEN Range(config.horizontalAxis.fingers) ELSE {})

\* The axis the action's name selects: "verticalAxis", "horizontalAxis" or "null".
findAxisForAction(action) ==
    LET name == ToLowerCase(action.name) IN
    IF Includes(name, "forward") \/ Includes(name, "backward") THEN "verticalAxis"
    ELSE IF Includes(name, "left") \/ Includes(name, "right") THEN "horizontalAxis"
    ELSE "null"

addFingerLoad(load, finger, frequency) ==
    [load EXCEPT ![finger] = @ + frequency]

\* The fingers of the actions named in the list of the action itself only.
getBlockedFingersOfOwnList(action, afm, allActions) ==
    UNION { Range(afm[otherName]) :
              otherName \in Range(action.concurrentWith) \cap DOMAIN afm }

\* The fingers some concurrency partner of `action` is recorded on.
getBlockedFingersForConcurrency(action, afm, allActions) ==
    UNION { Range(afm[otherName]) :
              otherName \in Range(action.concurrentWith) \cap DOMAIN afm }
    \cup
    UNION { Range(afm[allActions[i].name]) :
              i \in { j \in 1..Len(allActions) :
                        /\ action.name \in Range(allActions[j].concurrentWith)
                        /\ allActions[j].name \in DOMAIN afm } }

\* What an allocation step hands back: null, or a binding with its fingers
\* together with the finger loads after the step.
NoResult(load) == [ok |-> FALSE, key |-> "", fingers |-> << >>, fingerLoad |-> load]
Bound(key, fingers, load) ==
    [ok |-> TRUE, key |-> key, fingers |-> fingers, fingerLoad |-> load]

\* Mutant: any free movement key will do, whatever the action's axis.
allocateMovementAnyAxis(action, sKeys, bKeys, mConfig, load) ==
    LET axis == findAxisForAction(action) IN
    IF axis = "null" THEN NoResult(load)
    ELSE
        LET axisConfig == mConfig[axis]
            i == FindIndex(sKeys, { k \in Range(sKeys) :
                                      /\ k.code \in buildMovementKeySet(mConfig)
                                      /\ k.code \notin bKeys })
        IN  IF i = 0 THEN NoResult(load)
            ELSE Bound(sKeys[i].code, axisConfig.fingers,
                       addFingerLoad(load, axisConfig.fingers[1], action.useFrequency))

allocateMovementAction(action, sKeys, bKeys, mConfig, load) ==
    LET axis == findAxisForAction(action) IN
    IF axis = "null" THEN NoResult(load)
    ELSE
        LET axisConfig == mConfig[axis]
            targetKeys == { axisConfig.positiveKey, axisConfig.negativeKey }
            i == FindIndex(sKeys, { k \in Range(sKeys) :
                                      k.code \in targetKeys /\ k.code \notin bKeys })
        IN  IF i = 0 THEN NoResult(load)
            ELSE Bound(sKeys[i].code, axisConfig.fingers,
                       addFingerLoad(load, axisConfig.fingers[1], action.useFrequency))

\* The cap of the finger's reach alone, whatever the priority.
ExceedsReach(totalScore, reach, priority) ==
    /\ priority # 0
    /\ totalScore > reach

\* totalScore > 4 + (reach - 4) * ((100 - priority) / 99), in exact arithmetic
ExceedsCap(totalScore, reach, priority) ==
    /\ priority # 0
    /\ 99 * (totalScore - 4) > (reach - 4) * (100 - priority)

\* 20 * (totalScore - useFrequency * 0.1 + currentLoad * 0.05)
GreedyScore(sk, action, load) ==
    20 * sk.totalScore - 2 * action.useFrequency + load[sk.bestFinger]

\* The filter without the test of the available fingers.
EligibleOnAnyFinger(sk, action, bKeys, lockedKeySet, fConfig, movementKeys, movementFingers, avail, blockedFingers) ==
    /\ sk.code \notin bKeys
    /\ sk.code \notin lockedKeySet
    /\ sk.code \notin movementKeys
    /\ sk.bestFinger \notin movementFingers
    /\ sk.bestFinger \notin blockedFingers
    /\ sk.bestFinger \in DOMAIN fConfig
    /\ ~ExceedsCap(sk.totalScore, fConfig[sk.bestFinger].reach, action.priority)

\* The filter of the scan over scoredKeys in allocateNonMovementAction.
Eligible(sk, action, bKeys, lockedKeySet, fConfig, movementKeys, movementFingers, avail, blockedFingers) ==
    /\ sk.code \notin bKeys
    /\ sk.code \notin lockedKeySet
    /\ sk.code \notin movementKeys
    /\ sk.bestFinger \notin movementFingers
    /\ sk.bestFinger \in avail
    /\ sk.bestFinger \notin blockedFingers
    /\ sk.bestFinger \in DOMAIN fConfig
    /\ ~ExceedsCap(sk.totalScore, fConfig[sk.bestFinger].reach, action.priority)

allocateNonMovementAction(action, sKeys, bKeys, lockedKeySet, load, fConfig, movementKeys, movementFingers, avail, afm, allActions) ==
    LET blockedFingers == getBlockedFingersForConcurrency(action, afm, allActions)
        cand == { i \in 1..Len(sKeys) :
                    Eligible(sKeys[i], action, bKeys, lockedKeySet, fConfig,
                             movementKeys, movementFingers, avail, blockedFingers) }
        score(i) == GreedyScore(sKeys[i], action, load)
    IN  IF cand = {} THEN NoResult(load)
        ELSE
            \* the strict minimum of the scan: the first key among the cheapest
            LET winner == CHOOSE i \in cand :
                            \A j \in cand : IF j < i THEN score(i) < score(j)
                                            ELSE score(i) <= score(j)
            IN  Bound(sKeys[winner].code, << sKeys[winner].bestFinger >>,
                      addFingerLoad(load, sKeys[winner].bestFinger, action.useFrequency))

\* lockedBinds.get(name), "" standing for undefined (both are falsy)
LockedKey(locks, name) == IF name \in DOMAIN locks THEN locks[name] ELSE ""

allocateLocked(action, sKeys, lockedKey, load) ==
    LET i == FindIndex(sKeys, { k \in Range(sKeys) : k.code = lockedKey })
        finger == IF i = 0 THEN DefaultFinger ELSE sKeys[i].bestFinger
    IN  Bound(lockedKey, << finger >>, load)

\* Mutant: the DIRECTIONAL branch taken before the lock is looked up.
allocateDirectionalBeforeLock(action, sKeys, bKeys, locks, lockedKeySet, load, fConfig, mConfig, movementKeys, movementFingers, avail, afm, allActions) ==
    IF action.type = DIRECTIONAL
    THEN allocateMovementAction(action, sKeys, bKeys, mConfig, load)
    ELSE IF LockedKey(locks, action.name) # ""
    THEN allocateLocked(action, sKeys, LockedKey(locks, action.name), load)
    ELSE allocateNonMovementAction(action, sKeys, bKeys, lockedKeySet, load, fConfig,
                                   movementKeys, movementFingers, avail, afm, allActions)

allocateActionWithLoad(action, sKeys, bKeys, locks, lockedKeySet, load, fConfig, mConfig, movementKeys, movementFingers, avail, afm, allActions) ==
    IF LockedKey(locks, action.name) # ""
    THEN allocateLocked(action, sKeys, LockedKey(locks, action.name), load)
    ELSE IF action.type = DIRECTIONAL
    THEN allocateMovementAction(action, sKeys, bKeys, mConfig, load)
    ELSE allocateNonMovementAction(action, sKeys, bKeys, lockedKeySet, load, fConfig,
                                   movementKeys, movementFingers, avail, afm, allActions)

\* The frequency findDisplacementVictim sorts a binding by.
FrequencyOf(allActions, name) ==
    LET i == FindIndex(allActions, { a \in Range(allActions) : a.name = name })
    IN  IF i = 0 THEN 0 ELSE allActions[i].useFrequency

\* The bindings findDisplacementVictim may evict for concurrentAction, as indices.
Evictable(concurrentAction, binds, afm, allActions) ==
    LET blockedFingers ==
            getBlockedFingersForConcurrency(concurrentAction, afm, allActions)
    IN  { i \in 1..Len(binds) :
            /\ binds[i].action \in DOMAIN afm
            /\ \E f \in Range(afm[binds[i].action]) : f \notin blockedFingers
            /\ binds[i].action \notin Range(concurrentAction.concurrentWith) }

\* Mutant: the sort of the evictable bindings descending, the busiest first.
findBusiestVictim(concurrentAction, binds, afm, allActions) ==
    LET ev == Evictable(concurrentAction, binds, afm, allActions)
        freq(i) == FrequencyOf(allActions, binds[i].action)
    IN  IF ev = {} THEN 0
        ELSE CHOOSE i \in ev :
                \A j \in ev : IF j < i THEN freq(i) > freq(j) ELSE freq(i) >= freq(j)

\* Index of the victim's binding, 0 for null: evictable[0] after the stable
\* ascending sort by frequency.
findDisplacementVictim(concurrentAction, binds, afm, allActions) ==
    LET ev == Evictable(concurrentAction, binds, afm, allActions)
        freq(i) == FrequencyOf(allActions, binds[i].action)
    IN  IF ev = {} THEN 0
        ELSE CHOOSE i \in ev :
                \A j \in ev : IF j < i THEN freq(i) < freq(j) ELSE freq(i) <= freq(j)

\* actions.filter(a => !assignedNames.has(a.name) && a.concurrentWith.length > 0)
UnassignedConcurrent(allActions, binds) ==
    FilterSeq(allActions,
              { a \in Range(allActions) :
                  /\ a.name \notin { binds[i].action : i \in 1..Len(binds) }
                  /\ Len(a.concurrentWith) > 0 })

RECURSIVE AddLocks(_, _, _, _, _)
\* the loop of allocate that pins each unassigned concurrent action to its victim's key
AddLocks(locks, unassigned, binds, afm, allActions) ==
    IF unassigned = << >> THEN locks
    ELSE LET v == findDisplacementVictim(Head(unassigned), binds, afm, allActions)
         IN  AddLocks(IF v = 0 THEN locks
                      ELSE MapSet(locks, Head(unassigned).name, binds[v].key),
                      Tail(unassigned), binds, afm, allActions)

-----------------------------------------------------------------------------
(* The cost function: buildFrictionContext and calculateFriction.          *)
(* A Layout (a Map from action name to key code, iterated in insertion     *)
(* order) is a sequence of entries [action, key]; a missing entry reads as *)
(* undefined, which like the empty key code is falsy in every test the     *)
(* code makes.  Friction is carried as ten times its value, so that the    *)
(* weight 0.1 and the factor 0.5 of the load term stay integral.           *)

Undefined == ""

\* The index of the last element of s in `want`, 0 when none (a later
\* Map.set of the same key replaces the earlier value).
LastIndex(s, want) ==
    IF \E i \in 1..Len(s) : s[i] \in want
    THEN CHOOSE i \in 1..Len(s) : s[i] \in want /\ \A j \in (i + 1)..Len(s) : s[j] \notin want
    ELSE 0

RECURSIVE SumSeq(_)
SumSeq(s) == IF s = << >> THEN 0 ELSE Head(s) + SumSeq(Tail(s))

LayoutHas(layout, name) == \E i \in 1..Len(layout) : layout[i].action = name

\* Map.get
LayoutGet(layout, name) ==
    IF LayoutHas(layout, name)
    THEN layout[CHOOSE i \in 1..Len(layout) : layout[i].action = name].key
    ELSE Undefined

\* Map.set: an existing entry keeps its place, a new one goes last
LayoutSet(layout, name, key) ==
    IF LayoutHas(layout, name)
    THEN [i \in 1..Len(layout) |->
            IF layout[i].action = name THEN [action |-> name, key |-> key] ELSE layout[i]]
    ELSE Append(layout, [action |-> name, key |-> key])

LayoutKeys(layout) == { layout[i].key : i \in 1..Len(layout) }

LayoutNames(layout) == [i \in 1..Len(layout) |-> layout[i].action]

\* The key the name of a DIRECTIONAL action selects, Undefined when the name
\* holds none of the four direction words.
DirectionKey(actionName, config) ==
    LET name == ToLowerCase(actionName) IN
    IF Includes(name, "forward") THEN config.verticalAxis.positiveKey
    ELSE IF Includes(name, "backward") THEN config.verticalAxis.negativeKey
    ELSE IF Includes(name, "left") THEN config.horizontalAxis.negativeKey
    ELSE IF Includes(name, "right") THEN config.horizontalAxis.positiveKey
    ELSE Undefined

RECURSIVE MovementEntries(_, _, _)
\* The loop shared by buildFrictionContext and buildMovementActionMap.
MovementEntries(map, acts, config) ==
    IF acts = << >> THEN map
    ELSE LET action == Head(acts)
             key == DirectionKey(action.name, config)
         IN  IF action.type = DIRECTIONAL /\ key # Undefined
             THEN MovementEntries(LayoutSet(map, action.name, key), Tail(acts), config)
             ELSE MovementEntries(map, Tail(acts), config)

\* Object.entries(fingerConfig): the configured fingers, in the order of the
\* Finger enumeration.
FingerOrder ==
    << "LeftPinky", "LeftRing", "LeftMiddle", "LeftIndex", "LeftThumb",
       "RightThumb", "RightIndex", "RightMiddle", "RightRing", "RightPinky" >>

ObjectEntries(fConfig) == FilterSeq(FingerOrder, DOMAIN fConfig)

\* ctx.fingerExclusiveKeys: the fingers with a non-empty exclusive-key list.
fingerExclusiveKeys(fConfig) ==
    [f \in { g \in DOMAIN fConfig : fConfig[g].exclusiveKeys # << >> } |->
       Range(fConfig[f].exclusiveKeys)]

buildFrictionContext(acts, sKeys, fConfig, mConfig) ==
    [actions |-> acts, scoredKeys |-> sKeys, fingerConfig |-> fConfig,
     movementConfig |-> mConfig,
     movementKeySet |-> buildMovementKeySet(mConfig),
     movementActionToKey |-> MovementEntries(<< >>, acts, mConfig),
     fingerExclusiveKeys |-> fingerExclusiveKeys(fConfig)]

\* ctx.keyToFinger.get(code)
keyToFinger(ctx, code) ==
    LET i == LastIndex(ctx.scoredKeys, { sk \in Range(ctx.scoredKeys) : sk.code = code })
    IN  IF i = 0 THEN Undefined ELSE ctx.scoredKeys[i].bestFinger

UnknownKeyDistance == 100

\* ctx.keyToDistance.get(code) ?? 100
keyToDistance(ctx, code) ==
    LET i == LastIndex(ctx.scoredKeys, { sk \in Range(ctx.scoredKeys) : sk.code = code })
    IN  IF i = 0 THEN UnknownKeyDistance ELSE ctx.scoredKeys[i].totalScore

\* new Map(ctx.actions.map(a => [a.name, a])).get(name): 0 when absent
ActionIndex(acts, name) == LastIndex(acts, { a \in Range(acts) : a.name = name })

buildExclusiveFingerSet(config) ==
    { f \in Fingers :
        \/ config.verticalAxis.isExclusive /\ f \in Range(config.verticalAxis.fingers)
        \/ config.horizontalAxis.isExclusive /\ f \in Range(config.horizontalAxis.fingers) }

WrongMovementKey == 1000000
OnMovementKey == 500000
ExclusiveMismatch == 200000

\* 1. a DIRECTIONAL action away from the key its name selects
WrongMovementKeyTerm(action, keyCode, ctx) ==
    LET correctKey == LayoutGet(ctx.movementActionToKey, action.name) IN
    IF action.type = DIRECTIONAL /\ correctKey # Undefined /\ keyCode # correctKey
    THEN WrongMovementKey ELSE 0

\* 2. another action on a movement key
OnMovementKeyTerm(action, keyCode, ctx) ==
    IF action.type # DIRECTIONAL /\ keyCode \in ctx.movementKeySet
    THEN OnMovementKey ELSE 0

\* 3. exclusive keys: the key's finger has an exclusive set without the key,
\* and once more for every other finger whose exclusive set holds the key
ExclusiveMismatchTerm(finger, keyCode, ctx) ==
    IF finger = Undefined THEN 0
    ELSE (IF finger \in DOMAIN ctx.fingerExclusiveKeys
             /\ keyCode \notin ctx.fingerExclusiveKeys[finger]
          THEN ExclusiveMismatch ELSE 0)
         + ExclusiveMismatch
           * Cardinality({ other \in DOMAIN ctx.fingerExclusiveKeys :
                             other # finger /\ keyCode \in ctx.fingerExclusiveKeys[other] })

\* 4. distance, weighted by frequency and by itself; ten times the value,
\* penalties.frequencyWeight being given in tenths
DistanceTerm10(action, distance, pens) ==
    distance * action.useFrequency * pens.frequencyWeight
    + 10 * distance * pens.distanceWeight

\* 5. another action on an exclusive movement finger
ExclusiveViolationTerm(action, finger, ctx, pens) ==
    IF finger # Undefined /\ finger \in buildExclusiveFingerSet(ctx.movementConfig)
       /\ action.type # DIRECTIONAL
    THEN pens.exclusiveViolation ELSE 0

\* 6. a key beyond the reach of its finger
ReachTerm(finger, distance, ctx, pens) ==
    IF finger # Undefined /\ finger \in DOMAIN ctx.fingerConfig
       /\ distance > ctx.fingerConfig[finger].reach
    THEN pens.unreachablePenalty ELSE 0

\* 7. once for every name of concurrentWith that the layout puts on the finger
ConcurrencyTerm(action, finger, layout, ctx, pens) ==
    pens.concurrencyPenalty
    * Cardinality({ j \in 1..Len(action.concurrentWith) :
                      LET otherKey == LayoutGet(layout, action.concurrentWith[j]) IN
                      /\ otherKey # Undefined
                      /\ finger # Undefined
                      /\ keyToFinger(ctx, otherKey) # Undefined
                      /\ finger = keyToFinger(ctx, otherKey) })

\* The body of the loop of calculateFriction for one entry, times ten.
EntryFriction10(layout, i, ctx, pens) ==
    LET actionName == layout[i].action
        keyCode == layout[i].key
        a == ActionIndex(ctx.actions, actionName)
        action == ctx.actions[a]
        finger == keyToFinger(ctx, keyCode)
        distance == keyToDistance(ctx, keyCode)
    IN  IF a = 0 THEN 0
        ELSE 10 * ( WrongMovementKeyTerm(action, keyCode, ctx)
                    + OnMovementKeyTerm(action, keyCode, ctx)
                    + ExclusiveMismatchTerm(finger, keyCode, ctx)
                    + ExclusiveViolationTerm(action, finger, ctx, pens)
                    + ReachTerm(finger, distance, ctx, pens)
                    + ConcurrencyTerm(action, finger, layout, ctx, pens) )
             + DistanceTerm10(action, distance, pens)

RECURSIVE LoadsFrom(_, _, _)
\* The loop of calculateFingerLoads: finger loads in the order the fingers
\* first occur, as entries [finger, load].
LoadsFrom(loads, layout, ctx) ==
    IF layout = << >> THEN loads
    ELSE LET a == ActionIndex(ctx.actions, Head(layout).action)
             finger == keyToFinger(ctx, Head(layout).key)
             at == FindIndex(loads, { e \in Range(loads) : e.finger = finger })
         IN  IF a = 0 \/ finger = Undefined THEN LoadsFrom(loads, Tail(layout), ctx)
             ELSE IF at = 0
             THEN LoadsFrom(Append(loads, [finger |-> finger,
                                           load |-> ctx.actions[a].useFrequency]),
                            Tail(layout), ctx)
             ELSE LoadsFrom([loads EXCEPT ![at].load = @ + ctx.actions[a].useFrequency],
                            Tail(layout), ctx)

calculateFingerLoads(layout, ctx) == LoadsFrom(<< >>, layout, ctx)

\* Math.max and Math.min of a non-empty set of numbers
Max(S) == CHOOSE x \in S : \A y \in S : y <= x
Min(S) == CHOOSE x \in S : \A y \in S : x <= y

\* 8. (max - min) * 0.5 over the loaded fingers, times ten
calculateLoadImbalance10(layout, ctx) ==
    LET loads == calculateFingerLoads(layout, ctx)
        values == { loads[i].load : i \in 1..Len(loads) }
    IN  IF Len(loads) < 2 THEN 0 ELSE (Max(values) - Min(values)) * 5

\* calculateFriction, times ten.
calculateFriction(layout, ctx, pens) ==
    SumSeq([i \in 1..Len(layout) |-> EntryFriction10(layout, i, ctx, pens)])
    + calculateLoadImbalance10(layout, ctx)

-----------------------------------------------------------------------------
(* class SeededRandom.  The state is an integer from 0 to 2^31 - 1, and so *)
(* is the seed the model constructs it with.  seed * 1103515245 + 12345 is *)
(* computed in doubles: the product and then the sum are rounded to 53     *)
(* significant bits, ties to even, before `& 0x7fffffff` keeps the low 31  *)
(* bits.  A number beyond 2^31 is held as [hi, lo], hi * 2^31 + lo with lo *)
(* below 2^31.                                                             *)

\* F(v) with v evaluated once, the way a `const` holds a value
Const(v, F(_)) == CHOOSE r \in { F(x) : x \in { v } } : TRUE

Increment == 12345
Modulus == 2147483647

Wide(hi, lo) == [hi |-> hi, lo |-> lo]

\* seed * 1103515245, by long multiplication in base 2^15:
\* 1103515245 = 2^30 + 908 * 2^15 + 20077
Times(seed) ==
    LET x0 == seed % 32768
        x1 == (seed \div 32768) % 32768
        x2 == seed \div 1073741824
        t0 == x0 * 20077
        t1 == x0 * 908 + x1 * 20077 + (t0 \div 32768)
        t2 == x0 + x1 * 908 + x2 * 20077 + (t1 \div 32768)
        t3 == x1 + x2 * 908 + (t2 \div 32768)
        t4 == x2 + (t3 \div 32768)
    IN  Wide(((t2 % 32768) \div 2) + ((t3 % 32768) * 16384) + (t4 * 536870912),
             (t0 % 32768) + ((t1 % 32768) * 32768) + ((t2 % 2) * 1073741824))

\* w + n for 0 <= n < 2^31
WidePlus(w, n) ==
    IF w.lo > Modulus - n THEN Wide(w.hi + 1, w.lo - (Modulus - n) - 1)
    ELSE Wide(w.hi, w.lo + n)

\* Rounding to a double: to 53 significant bits, ties to even.  A number
\* with hi >= 2^22 has more than 53 bits, one more for each doubling of hi.
RoundToDouble(w) ==
    LET drop == Cardinality({ k \in 22..30 : w.hi >= 2^k })
        rest == w.lo % (2^drop)
        odd == (w.lo \div (2^drop)) % 2 = 1
        up == rest > 2^(drop - 1) \/ (rest = 2^(drop - 1) /\ odd)
    IN  IF drop = 0 THEN w
        ELSE IF up THEN WidePlus(Wide(w.hi, w.lo - rest), 2^drop)
        ELSE Wide(w.hi, w.lo - rest)

\* SeededRandom.next: the new state; the number returned is state / 0x7fffffff.
\* `& 0x7fffffff` keeps lo.
next(seed) ==
    Const(Times(seed), LAMBDA product :
    Const(RoundToDouble(product), LAMBDA rounded :
    Const(WidePlus(rounded, Increment), LAMBDA sum : RoundToDouble(sum).lo)))

\* next() < 0.7 and next() < 0.9, for the state next() leaves
RandomSwapBelow == 1503238553
LoadSwapBelow == 1932735283

\* Math.floor(next() * n) for the state next() leaves: the number of i in
\* 1..n with seed / 0x7fffffff * n >= i.  0x7fffffff is prime, so the exact
\* product is further from every integer than the rounding of the doubles.
FloorOfProduct(seed, n) ==
    IF n > 0
    THEN Cardinality({ i \in 1..n :
           seed >= i * (Modulus \div n) + (((i * (Modulus % n)) + n - 1) \div n) })
    ELSE IF n = 0 \/ seed = 0 THEN 0
    ELSE -1

\* arr[i] of a JavaScript array, undefined out of range
ArrayAt(arr, i) == IF i \in 0..(Len(arr) - 1) THEN arr[i + 1] ELSE Undefined

\* SeededRandom.pick, `draw` being the state its call of next() leaves
pick(arr, draw) == ArrayAt(arr, FloorOfProduct(draw, Len(arr)))

\* SeededRandom.pickTwo, `first` and `second` being the states its two calls
\* of next() leave
pickTwo(arr, first, second) ==
    LET i == FloorOfProduct(first, Len(arr))
        j == FloorOfProduct(second, Len(arr) - 1)
    IN  << ArrayAt(arr, i), ArrayAt(arr, IF j >= i THEN j + 1 ELSE j) >>

-----------------------------------------------------------------------------
(* The simulated-annealing optimizer: the warm start, the three moves of   *)
(* mutate, and the acceptance test of optimizeSA.                          *)

buildMovementActionMap(acts, config) == MovementEntries(<< >>, acts, config)

RECURSIVE AssignExclusiveKeys(_, _, _)
\* Step 2 of generateInitialLayout over the keys left of the exclusive-key
\* lists, taken finger by finger: a used key is skipped, and with no
\* unassigned action left the keys of the finger are given up (`break`).
AssignExclusiveKeys(layout, keyLists, nonMovement) ==
    IF keyLists = << >> THEN layout
    ELSE IF Head(keyLists) = << >> THEN AssignExclusiveKeys(layout, Tail(keyLists), nonMovement)
    ELSE LET key == Head(Head(keyLists))
             rest == << Tail(Head(keyLists)) >> \o Tail(keyLists)
             free == FindIndex(nonMovement,
                               { a \in Range(nonMovement) : ~LayoutHas(layout, a.name) })
         IN  IF key \in LayoutKeys(layout) THEN AssignExclusiveKeys(layout, rest, nonMovement)
             ELSE IF free = 0 THEN AssignExclusiveKeys(layout, Tail(keyLists), nonMovement)
             ELSE AssignExclusiveKeys(LayoutSet(layout, nonMovement[free].name, key),
                                      rest, nonMovement)

RECURSIVE AssignRemaining(_, _, _)
\* Step 3: each remaining action takes the first scored key not used yet,
\* and stays out of the layout when there is none.
AssignRemaining(layout, remaining, sKeys) ==
    IF remaining = << >> THEN layout
    ELSE LET k == FindIndex(sKeys, { sk \in Range(sKeys) : sk.code \notin LayoutKeys(layout) })
         IN  IF k = 0 THEN AssignRemaining(layout, Tail(remaining), sKeys)
             ELSE AssignRemaining(LayoutSet(layout, Head(remaining).name, sKeys[k].code),
                                  Tail(remaining), sKeys)

generateInitialLayout(acts, sKeys, mConfig, fConfig) ==
    LET movementMap == buildMovementActionMap(acts, mConfig)
        nonMovement ==
            sortActionsByFrequency(
                FilterSeq(acts, { a \in Range(acts) : ~LayoutHas(movementMap, a.name) }))
        exclusiveLists ==
            [i \in 1..Len(ObjectEntries(fConfig)) |->
               fConfig[ObjectEntries(fConfig)[i]].exclusiveKeys]
        placed == AssignExclusiveKeys(movementMap, exclusiveLists, nonMovement)
        remaining ==
            FilterSeq(nonMovement, { a \in Range(nonMovement) : ~LayoutHas(placed, a.name) })
    IN  AssignRemaining(placed, remaining, sKeys)

\* A swap that forgets the second assignment.
swapOneWay(layout, actionA, actionB) ==
    LET keyA == LayoutGet(layout, actionA)
        keyB == LayoutGet(layout, actionB)
    IN  IF keyA # Undefined /\ keyB # Undefined
        THEN LayoutSet(layout, actionA, keyB)
        ELSE layout

swap(layout, actionA, actionB) ==
    LET keyA == LayoutGet(layout, actionA)
        keyB == LayoutGet(layout, actionB)
    IN  IF keyA # Undefined /\ keyB # Undefined
        THEN LayoutSet(LayoutSet(layout, actionA, keyB), actionB, keyA)
        ELSE layout

\* What mutate hands back: the layout, the state it leaves the generator in,
\* and the move it made.
Mutated(layout, seed, move) == [layout |-> layout, seed |-> seed, move |-> move]

\* The random move giving the first action the key of the second only.
RandomSwapOneWay(layout, seed) ==
    Const(next(seed), LAMBDA first :
    Const(next(first), LAMBDA second :
    Const(pickTwo(LayoutNames(layout), first, second), LAMBDA pair :
        Mutated(swapOneWay(layout, pair[1], pair[2]), second, "random"))))

\* 70%: rng.pickTwo(actionNames), two draws
RandomSwap(layout, seed) ==
    Const(next(seed), LAMBDA first :
    Const(next(first), LAMBDA second :
    Const(pickTwo(LayoutNames(layout), first, second), LAMBDA pair :
        Mutated(swap(layout, pair[1], pair[2]), second, "random"))))

\* sorted[0][0] of the stable descending sort of the loads: the first finger
\* with the highest load
HighFinger(fingerLoads) ==
    fingerLoads[CHOOSE i \in 1..Len(fingerLoads) :
                   /\ \A j \in 1..Len(fingerLoads) : fingerLoads[j].load <= fingerLoads[i].load
                   /\ \A j \in 1..(i - 1) : fingerLoads[j].load < fingerLoads[i].load].finger

\* sorted[sorted.length - 1][0]: the last finger with the lowest load
LowFinger(fingerLoads) ==
    fingerLoads[CHOOSE i \in 1..Len(fingerLoads) :
                   /\ \A j \in 1..Len(fingerLoads) : fingerLoads[j].load >= fingerLoads[i].load
                   /\ \A j \in (i + 1)..Len(fingerLoads) :
                         fingerLoads[j].load > fingerLoads[i].load].finger

\* The action names of the layout whose key is on the finger.
ActionsOn(layout, ctx, finger) ==
    FilterSeq(LayoutNames(layout),
              { a \in Range(LayoutNames(layout)) :
                  /\ LayoutGet(layout, a) # Undefined
                  /\ keyToFinger(ctx, LayoutGet(layout, a)) = finger })

\* 20%: rng.pick(highActions), then rng.pick(lowActions)
LoadSwap(layout, fingerLoads, ctx, seed) ==
    Const(next(seed), LAMBDA first :
    Const(next(first), LAMBDA second :
    Const(pick(ActionsOn(layout, ctx, HighFinger(fingerLoads)), first), LAMBDA high :
    Const(pick(ActionsOn(layout, ctx, LowFinger(fingerLoads)), second), LAMBDA low :
        Mutated(swap(layout, high, low), second, "load")))))

\* The pairs (entry of the layout, index into its concurrentWith) at which
\* the conflict loop of mutate returns: both keys on one finger, and some
\* third action to swap with.
Conflicts(layout, acts, ctx) ==
    UNION { { << i, j >> :
                j \in { k \in 1..Len(acts[ActionIndex(acts, layout[i].action)].concurrentWith) :
                          LET otherName ==
                                  acts[ActionIndex(acts, layout[i].action)].concurrentWith[k]
                              finger == keyToFinger(ctx, layout[i].key)
                              otherKey == LayoutGet(layout, otherName)
                          IN  /\ otherKey # Undefined
                              /\ finger # Undefined
                              /\ finger = keyToFinger(ctx, otherKey)
                              /\ Range(LayoutNames(layout))
                                    \ { layout[i].action, otherName } # {} } } :
            i \in { e \in 1..Len(layout) : ActionIndex(acts, layout[e].action) # 0 } }

\* The first conflict, in the order the two loops of mutate meet them.
FirstConflict(found) ==
    CHOOSE c \in found : \A d \in found : c[1] < d[1] \/ (c[1] = d[1] /\ c[2] <= d[2])

\* 10%, and the move the load swap falls through to: one draw when a
\* conflict is found, none otherwise
ConflictSwap(layout, acts, ctx, seed) ==
    Const(Conflicts(layout, acts, ctx), LAMBDA found :
        IF found = {} THEN Mutated(layout, seed, "none")
        ELSE Const(FirstConflict(found), LAMBDA p :
             Const(acts[ActionIndex(acts, layout[p[1]].action)].concurrentWith[p[2]],
                   LAMBDA otherName :
             Const(next(seed), LAMBDA draw :
                 Mutated(swap(layout, otherName,
                              pick(FilterSeq(LayoutNames(layout),
                                             Range(LayoutNames(layout))
                                               \ { layout[p[1]].action, otherName }),
                                   draw)),
                         draw, "conflict")))))

\* mutate(layout, fingerLoads, actions, keyToFinger, rng), `seed` being the
\* state of rng at the call.
mutate(layout, fingerLoads, acts, ctx, seed) ==
    Const(next(seed), LAMBDA roll :
        IF roll < RandomSwapBelow THEN RandomSwap(layout, roll)
        ELSE IF roll < LoadSwapBelow /\ Len(fingerLoads) < 2 THEN Mutated(layout, roll, "none")
        ELSE IF /\ roll < LoadSwapBelow
                /\ ActionsOn(layout, ctx, HighFinger(fingerLoads)) # << >>
                /\ ActionsOn(layout, ctx, LowFinger(fingerLoads)) # << >>
             THEN LoadSwap(layout, fingerLoads, ctx, roll)
        ELSE ConflictSwap(layout, acts, ctx, roll))

\* Temperatures and cooling rates are dyadic rationals [num, den] in lowest
\* terms, whose products are exact in doubles.
RECURSIVE GCD(_, _)
GCD(a, b) == IF b = 0 THEN a ELSE GCD(b, a % b)

Ratio(num, den) ==
    [num |-> num \div GCD(num, den), den |-> den \div GCD(num, den), tiny |-> FALSE]

\* A subnormal double: n times 2^-1074, the smallest positive double.
Tiny(n) == [num |-> n, den |-> 1, tiny |-> TRUE]

\* a / q rounded to the nearest integer, ties to even, as a product of doubles
\* is rounded.
RoundHalfEven(a, q) ==
    IF 2 * (a % q) < q THEN a \div q
    ELSE IF 2 * (a % q) > q THEN (a \div q) + 1
    ELSE IF (a \div q) % 2 = 0 THEN a \div q
    ELSE (a \div q) + 1

\* The temperature multiplied by coolingRate twice.
CooledTwice(t, coolingRate) ==
    IF t.tiny
    THEN Tiny(RoundHalfEven(RoundHalfEven(t.num * coolingRate.num, coolingRate.den)
                              * coolingRate.num, coolingRate.den))
    ELSE Ratio(t.num * coolingRate.num * coolingRate.num,
               t.den * coolingRate.den * coolingRate.den)

\* temp * coolingRate.  The normal temperatures of the model and their
\* products are exact in doubles; the product of a subnormal temperature is
\* rounded to a multiple of 2^-1074.
Cooled(t, coolingRate) ==
    IF t.tiny THEN Tiny(RoundHalfEven(t.num * coolingRate.num, coolingRate.den))
    ELSE Ratio(t.num * coolingRate.num, t.den * coolingRate.den)

\* a > b: a positive normal number is above every subnormal one
Above(a, b) ==
    IF a.tiny = b.tiny THEN a.num * b.den > b.num * a.den
    ELSE b.tiny /\ a.num > 0

\* 0x7fffffff * e^-n, rounded, for n = 0..21
ExpTable ==
    << 2147483647, 790015084, 290630308, 106916915, 39332535, 14469631, 5323080,
       1958252, 720401, 265021, 97496, 35867, 13195, 4854, 1786, 657, 242, 89, 33,
       12, 4, 2 >>

FixedPoint == 32768

RECURSIVE ExpSeries(_, _, _)
\* The terms k, k + 1, ... 12 of the series of e^-f in fixed point, `term`
\* being term k - 1 and f the fixed-point fraction.
ExpSeries(term, f, k) ==
    IF k > 12 THEN 0
    ELSE Const((term * f) \div (FixedPoint * k), LAMBDA this :
             (IF k % 2 = 1 THEN -this ELSE this) + ExpSeries(this, f, k + 1))

\* 0x7fffffff * Math.exp(-(whole + r / q)) for whole < 22 and r < q, to
\* four significant digits.
ExpThreshold(whole, r, q) ==
    Const(FixedPoint + ExpSeries(FixedPoint, (r * FixedPoint) \div q, 1), LAMBDA fraction :
    Const(ExpTable[whole + 1], LAMBDA table :
        IF r = 0 THEN table
        ELSE ((table \div 65536) * fraction * 2)
             + (((table % 65536) * fraction) \div FixedPoint)))

\* The test with a move of delta 0 taken for a worsening one that is refused.
AcceptsStrictlyWorse(draw, delta10, t) ==
    LET p == delta10 * t.den
        q == 10 * t.num
        whole == p \div q
        r == p % q
    IN  IF delta10 = 0 THEN FALSE
        ELSE IF t.tiny THEN FALSE
        ELSE IF whole > 745 \/ (whole = 745 /\ 10000 * r > 1332 * q) THEN FALSE
        ELSE IF whole >= 22 THEN draw = 0
        ELSE draw = 0 \/ draw < ExpThreshold(whole, r, q)

\* rng.next() < Math.exp(-delta / temp) for delta >= 0, `draw` being the
\* state next() leaves and delta10 ten times delta.  Math.exp(-x) is 1 at
\* x = 0, below 1 / 0x7fffffff from x = 22 on, and 0 from x = 745.1333 on,
\* as it is for every delta >= 0.1 at a subnormal temperature.
AcceptsWorse(draw, delta10, t) ==
    LET p == delta10 * t.den
        q == 10 * t.num
        whole == p \div q
        r == p % q
    IN  IF delta10 = 0 THEN draw < Modulus
        ELSE IF t.tiny THEN FALSE
        ELSE IF whole > 745 \/ (whole = 745 /\ 10000 * r > 1332 * q) THEN FALSE
        ELSE IF whole >= 22 THEN draw = 0
        ELSE draw = 0 \/ draw < ExpThreshold(whole, r, q)

\* options.seed || Date.now(): the seed 0 is taken for no seed.
SeedUnlessFalsy(opts, now) ==
    IF opts.seed = << >> \/ opts.seed = << 0 >> THEN now ELSE opts.seed[1]

\* options.seed ?? Date.now(): the seed is << >> when the options give none
SeedOrNow(opts, now) ==
    IF opts.seed = << >> THEN now ELSE opts.seed[1]

-----------------------------------------------------------------------------
(* geometry.ts and the key scorer: getDistance, getNearbyKeys, scoreKeys.  *)
(*                                                                         *)
(* Numbers.  Key positions are multiples of 0.25u given as integers, and   *)
(* widths may be odd, so centers are carried doubled.  A distance or a     *)
(* score is the number (sqrt(root) + plus) / 2 with integers root >= 0 and *)
(* plus, root being 0 or no perfect square: Math.sqrt is correctly rounded *)
(* and exact on perfect squares, so two such numbers are the same double   *)
(* exactly when the two pairs are equal, and they compare as the reals do  *)
(* (the pairs of the model are far apart against the rounding of a         *)
(* double).  Key penalties are multiples of 0.5.                           *)

Num(root, plus) == [root |-> root, plus |-> plus]

Zero == Num(0, 0)

RECURSIVE Isqrt(_, _)
\* The largest s' >= s with s' * s' <= n.
Isqrt(n, s) == IF (s + 1) * (s + 1) > n THEN s ELSE Isqrt(n, s + 1)

\* Math.sqrt(n) / 2
HalfSqrt(n) ==
    Const(Isqrt(n, 0), LAMBDA s : IF s * s = n THEN Num(0, s) ELSE Num(n, 0))

\* a + p for a penalty p given doubled
Plus(a, p) == Num(a.root, a.plus + p)

\* sqrt(na) < sqrt(nb) + c
LessRoots(na, nb, c) ==
    IF c = 0 THEN na < nb
    ELSE IF c > 0 THEN (na - nb - c * c < 0)
                       \/ ((na - nb - c * c) * (na - nb - c * c) < 4 * c * c * nb)
    ELSE /\ nb - na - c * c > 0
         /\ (nb - na - c * c) * (nb - na - c * c) > 4 * c * c * na

\* a < b
Less(a, b) == LessRoots(a.root, b.root, b.plus - a.plus)

Abs(n) == IF n < 0 THEN -n ELSE n

DEFAULT_KEY_HEIGHT == 4

KeyDef(code, x, y, width) == [code |-> code, x |-> x, y |-> y, width |-> width]

\* Keys of ANSI_LAYOUT and MOUSE_LAYOUT, in the order of the two tables.
AllKeys ==
    << KeyDef("Digit3", 12, 0, 4),
       KeyDef("KeyQ", 6, 4, 4), KeyDef("KeyW", 10, 4, 4), KeyDef("KeyE", 14, 4, 4),
       KeyDef("CapsLock", 0, 8, 7), KeyDef("KeyA", 7, 8, 4), KeyDef("KeyS", 11, 8, 4),
       KeyDef("KeyD", 15, 8, 4), KeyDef("KeyF", 19, 8, 4),
       KeyDef("KeyX", 13, 12, 4),
       KeyDef("AltLeft", 10, 16, 5), KeyDef("Space", 15, 16, 4),
       KeyDef("MouseLeft", 70, 4, 4), KeyDef("MouseUp", 74, 0, 4),
       KeyDef("Mouse4", 66, 8, 4), KeyDef("MouseMiddle", 74, 4, 4),
       KeyDef("Mouse5", 66, 12, 4) >>

\* A key code of no table.
UnknownCode == "KeyZZ"

\* The center of a key, both coordinates doubled.
getKeyCenter(key) ==
    [x |-> 2 * key.x + key.width,
     y |-> 2 * key.y + (IF "height" \in DOMAIN key THEN key.height ELSE DEFAULT_KEY_HEIGHT)]

\* The distance along the axes instead of the straight line.
taxicab(pointA, pointB) ==
    Num(0, Abs(pointA.x - pointB.x) + Abs(pointA.y - pointB.y))

\* Math.sqrt(deltaX * deltaX + deltaY * deltaY), the two points being doubled
euclidean(pointA, pointB) ==
    HalfSqrt((pointA.x - pointB.x) * (pointA.x - pointB.x)
               + (pointA.y - pointB.y) * (pointA.y - pointB.y))

keyDistance(keyA, keyB) ==
    IF keyA.code = keyB.code THEN Zero
    ELSE euclidean(getKeyCenter(keyA), getKeyCenter(keyB))

RECURSIVE InsertByX(_, _)
\* Insertion behind the keys with the same center x: the sort is stable.
InsertByX(sorted, key) ==
    IF sorted = << >> THEN << key >>
    ELSE IF getKeyCenter(Head(sorted)).x <= getKeyCenter(key).x
         THEN << Head(sorted) >> \o InsertByX(Tail(sorted), key)
         ELSE << key >> \o sorted

RECURSIVE SortByXFrom(_, _)
SortByXFrom(sorted, rest) ==
    IF rest = << >> THEN sorted ELSE SortByXFrom(InsertByX(sorted, Head(rest)), Tail(rest))

sortKeysByX(keys) == SortByXFrom(<< >>, keys)

\* this.sortedKeysX
sortedKeysX == sortKeysByX(AllKeys)

\* this.keyMap.has(code)
KeyKnown(code) == \E i \in 1..Len(AllKeys) : AllKeys[i].code = code

\* this.keyMap.get(code) of a known code
keyMap(code) == AllKeys[LastIndex(AllKeys, { k \in Range(AllKeys) : k.code = code })]

\* The sentinel -1 of getDistance.
NotFound == Num(0, -2)

\* getDistance answering 0 for a code the key map does not have.
getDistanceOrZero(key1Id, key2Id) ==
    IF ~KeyKnown(key1Id) \/ ~KeyKnown(key2Id) THEN Zero
    ELSE keyDistance(keyMap(key1Id), keyMap(key2Id))

getDistance(key1Id, key2Id) ==
    IF ~KeyKnown(key1Id) \/ ~KeyKnown(key2Id) THEN NotFound
    ELSE keyDistance(keyMap(key1Id), keyMap(key2Id))

\* The loop body leaving the loop at a key outside the y window.
SweepVerdictLeavingOnRow(keyDefinition, center, maxDistance, excludeCode) ==
    Const(getKeyCenter(keyDefinition), LAMBDA keyCenter :
        IF keyCenter.x < center.x - maxDistance THEN "continue"
        ELSE IF keyCenter.x > center.x + maxDistance THEN "break"
        ELSE IF Abs(keyCenter.y - center.y) > maxDistance THEN "break"
        ELSE IF keyDefinition.code = excludeCode THEN "continue"
        ELSE IF Less(Num(0, maxDistance), euclidean(center, keyCenter)) THEN "continue"
        ELSE "push")

\* What findKeysWithinRadius does with one key of sortedKeysX: skip it
\* ("continue"), stop the sweep ("break") or add it ("push").  center is
\* doubled, and so is maxDistance.
SweepVerdict(keyDefinition, center, maxDistance, excludeCode) ==
    Const(getKeyCenter(keyDefinition), LAMBDA keyCenter :
        IF keyCenter.x < center.x - maxDistance THEN "continue"
        ELSE IF keyCenter.x > center.x + maxDistance THEN "break"
        ELSE IF Abs(keyCenter.y - center.y) > maxDistance THEN "continue"
        ELSE IF keyDefinition.code = excludeCode THEN "continue"
        ELSE IF Less(Num(0, maxDistance), euclidean(center, keyCenter)) THEN "continue"
        ELSE "push")

\* FingerConfig with the optional exclusiveKeys and keyPenalties; a penalty is
\* given doubled.
FingerSetup(restingKey, reach, exclusiveKeys, keyPenalties) ==
    [restingKey |-> restingKey, reach |-> reach, exclusiveKeys |-> exclusiveKeys,
     keyPenalties |-> keyPenalties]

\* config.keyPenalties?.[keyCode] ?? 0
Penalty(config, keyCode) ==
    IF keyCode \in DOMAIN config.keyPenalties THEN config.keyPenalties[keyCode] ELSE 0

\* The value findClosestRestingFinger returns: null, or a finger with its
\* resting key and the cost of the key for it.
Null == [found |-> FALSE]

Closest(finger, originKey, distance) ==
    [found |-> TRUE, finger |-> finger, originKey |-> originKey, distance |-> distance]

RECURSIVE ExclusiveSearch(_, _, _)
\* The first loop of findClosestRestingFinger over the entries left: the
\* fingers whose exclusiveKeys include the key.
ExclusiveSearch(entries, keyCode, fConfig) ==
    IF entries = << >> THEN Null
    ELSE LET finger == Head(entries)
             config == fConfig[finger]
             dist == getDistance(keyCode, config.restingKey)
         IN  IF keyCode \notin Range(config.exclusiveKeys)
                 THEN ExclusiveSearch(Tail(entries), keyCode, fConfig)
             ELSE IF keyCode = config.restingKey
                 THEN Closest(finger, config.restingKey, Num(0, Penalty(config, keyCode)))
             ELSE IF dist = NotFound
                 THEN ExclusiveSearch(Tail(entries), keyCode, fConfig)
             ELSE Closest(finger, config.restingKey, Plus(dist, Penalty(config, keyCode)))

RECURSIVE NormalSearchOverAllFingers(_, _, _, _)
\* The second loop without the skip of the fingers that have exclusive keys.
NormalSearchOverAllFingers(entries, keyCode, fConfig, closest) ==
    IF entries = << >> THEN closest
    ELSE LET finger == Head(entries)
             config == fConfig[finger]
             dist == getDistance(keyCode, config.restingKey)
             totalDist == Plus(dist, Penalty(config, keyCode))
         IN  IF keyCode = config.restingKey
                 THEN Closest(finger, config.restingKey, Num(0, Penalty(config, keyCode)))
             ELSE IF dist = NotFound
                 THEN NormalSearchOverAllFingers(Tail(entries), keyCode, fConfig, closest)
             ELSE IF ~closest.found \/ Less(totalDist, closest.distance)
                 THEN NormalSearchOverAllFingers(Tail(entries), keyCode, fConfig,
                                   Closest(finger, config.restingKey, totalDist))
             ELSE NormalSearchOverAllFingers(Tail(entries), keyCode, fConfig, closest)

RECURSIVE NormalSearch(_, _, _, _)
\* The second loop, `best` being the closest finger so far.
NormalSearch(entries, keyCode, fConfig, closest) ==
    IF entries = << >> THEN closest
    ELSE LET finger == Head(entries)
             config == fConfig[finger]
             dist == getDistance(keyCode, config.restingKey)
             totalDist == Plus(dist, Penalty(config, keyCode))
         IN  IF config.exclusiveKeys # << >>
                 THEN NormalSearch(Tail(entries), keyCode, fConfig, closest)
             ELSE IF keyCode = config.restingKey
                 THEN Closest(finger, config.restingKey, Num(0, Penalty(config, keyCode)))
             ELSE IF dist = NotFound
                 THEN NormalSearch(Tail(entries), keyCode, fConfig, closest)
             ELSE IF ~closest.found \/ Less(totalDist, closest.distance)
                 THEN NormalSearch(Tail(entries), keyCode, fConfig,
                                   Closest(finger, config.restingKey, totalDist))
             ELSE NormalSearch(Tail(entries), keyCode, fConfig, closest)

findClosestRestingFinger(keyCode, fConfig) ==
    Const(ExclusiveSearch(ObjectEntries(fConfig), keyCode, fConfig), LAMBDA exclusive :
        IF exclusive.found THEN exclusive
        ELSE NormalSearch(ObjectEntries(fConfig), keyCode, fConfig, Null))

\* isRestingKey told from the finger's resting key, not from the score.
scoreKeyByOrigin(keyCode, fConfig, movementKeys) ==
    Const(findClosestRestingFinger(keyCode, fConfig), LAMBDA closest :
        IF ~closest.found THEN << >>
        ELSE << [code |-> keyCode,
                 totalScore |-> closest.distance,
                 bestFinger |-> closest.finger,
                 originKey |-> closest.originKey,
                 isRestingKey |-> keyCode = closest.originKey,
                 isMovement |-> keyCode \in movementKeys] >>)

\* scoreKey, its result as a list: empty for null, else the one ScoredKey
scoreKey(keyCode, fConfig, movementKeys) ==
    Const(findClosestRestingFinger(keyCode, fConfig), LAMBDA closest :
        IF ~closest.found THEN << >>
        ELSE << [code |-> keyCode,
                 totalScore |-> closest.distance,
                 bestFinger |-> closest.finger,
                 originKey |-> closest.originKey,
                 isRestingKey |-> closest.distance = Zero,
                 isMovement |-> keyCode \in movementKeys] >>)

-----------------------------------------------------------------------------
(* The inputs Optimizer.allocate is run on *)

MaxActions == 3

Action(name, type, priority, useFrequency, concurrentWith) ==
    [name |-> name, type |-> type, priority |-> priority,
     useFrequency |-> useFrequency, concurrentWith |-> concurrentWith]

ActionPool ==
    { Action("MoveForward", DIRECTIONAL, 0, 100, << >>),
      Action("MoveForward", DIRECTIONAL, 0, 10, << "Jump" >>),
      Action("Backward", DIRECTIONAL, 0, 50, << >>),
      Action("StrafeLeft", DIRECTIONAL, 0, 50, << >>),
      Action("Sprint", DIRECTIONAL, 0, 50, << "Jump" >>),
      Action("Jump", COMBAT, 100, 100, << >>),
      Action("Jump", COMBAT, 0, 10, << "Shoot" >>),
      Action("Shoot", COMBAT, 100, 100, << "Jump" >>),
      Action("Shoot", COMBAT, 100, 50, << "MoveForward" >>),
      Action("Shoot", COMBAT, 50, 50, << >>),
      Action("Reload", COMBAT, 0, 10, << "Jump" >>) }

Names(acts) == { acts[i].name : i \in 1..Len(acts) }

\* Action lists of at most MaxActions actions, with unique names.
ActionLists ==
    { acts \in UNION { [1..n -> ActionPool] : n \in 1..MaxActions } :
        Cardinality(Names(acts)) = Len(acts) }

ScoredKey(code, totalScore, bestFinger) ==
    [code |-> code, totalScore |-> totalScore, bestFinger |-> bestFinger]

FingerCfg(restingKey, reach) ==
    [restingKey |-> restingKey, reach |-> reach, exclusiveKeys |-> << >>]

\* The finger configuration of Optimizer.test.ts, RightRing left unconfigured.
TestFingerConfig ==
    [f \in {"LeftMiddle", "LeftIndex", "RightIndex", "RightMiddle"} |->
       CASE f = "LeftMiddle"  -> FingerCfg("KeyW", 12)
         [] f = "LeftIndex"   -> FingerCfg("KeyD", 12)
         [] f = "RightIndex"  -> FingerCfg("KeyF", 12)
         [] f = "RightMiddle" -> FingerCfg("KeyG", 12)]

Axis(positiveKey, negativeKey, fingers, isExclusive) ==
    [positiveKey |-> positiveKey, negativeKey |-> negativeKey,
     fingers |-> fingers, isExclusive |-> isExclusive]

TestMovementConfig(isExclusive) ==
    [verticalAxis |-> Axis("KeyW", "KeyS", << "LeftMiddle" >>, isExclusive),
     horizontalAxis |-> Axis("KeyD", "KeyA", << "LeftIndex" >>, isExclusive)]

Environment(sKeys, fConfig, mConfig, avail) ==
    [scoredKeys |-> sKeys, fingerConfig |-> fConfig, movementConfig |-> mConfig,
     availableFingers |-> avail]

\* The setting of Optimizer.test.ts: two free keys on two right-hand fingers,
\* axis fingers reserved for movement.
TestEnvironment ==
    Environment(
        << ScoredKey("KeyW", 0, "LeftMiddle"), ScoredKey("KeyS", 4, "LeftMiddle"),
           ScoredKey("KeyF", 0, "RightIndex"), ScoredKey("KeyG", 4, "RightMiddle") >>,
        TestFingerConfig, TestMovementConfig(TRUE),
        {"RightIndex", "RightMiddle", "RightRing"})

\* Axis fingers shared with other actions, keys in no score order, a key of an
\* unconfigured finger (KeyH) and one of an unavailable finger (KeyB).
SharedEnvironment ==
    Environment(
        << ScoredKey("KeyD", 0, "LeftIndex"),
           ScoredKey("KeyR", 4, "RightIndex"), ScoredKey("KeyS", 4, "LeftMiddle"),
           ScoredKey("KeyW", 0, "LeftMiddle"), ScoredKey("KeyF", 0, "RightIndex"),
           ScoredKey("KeyE", 4, "LeftMiddle"), ScoredKey("KeyH", 4, "RightRing"),
           ScoredKey("KeyB", 8, "LeftIndex") >>,
        TestFingerConfig, TestMovementConfig(FALSE),
        {"LeftMiddle", "RightIndex", "RightRing"})

\* A single free finger with a near and a far key, and the axis key KeyS
\* missing from the scored keys.
ScarceEnvironment ==
    Environment(
        << ScoredKey("KeyW", 0, "LeftMiddle"), ScoredKey("KeyF", 0, "RightIndex"),
           ScoredKey("KeyT", 8, "RightIndex") >>,
        TestFingerConfig, TestMovementConfig(TRUE),
        {"RightIndex", "RightMiddle", "RightRing"})

\* Keys beyond the cap of a priority: KeyT at 8, and KeyP at 16, farther than
\* the reach of its finger.
FarEnvironment ==
    Environment(
        << ScoredKey("KeyW", 0, "LeftMiddle"), ScoredKey("KeyF", 0, "RightIndex"),
           ScoredKey("KeyT", 8, "RightIndex"), ScoredKey("KeyP", 16, "RightMiddle") >>,
        TestFingerConfig, TestMovementConfig(TRUE),
        {"RightIndex", "RightMiddle", "RightRing"})

NoLocks == EmptyMap
LockOnMovementKey == [n \in {"Jump", "OtherAction"} |-> IF n = "Jump" THEN "KeyW" ELSE "KeyF"]
LockSameKeyTwice == [n \in {"Jump", "Shoot"} |-> "KeyF"]
LockDirectional == [n \in {"MoveForward", "Shoot"} |-> IF n = "Shoot" THEN "" ELSE "KeyQ"]

\* The (environment, lock map) pairs allocate is run on.
\* The right index finger reaches less far than 4.
ShortReachFingerConfig ==
    [f \in {"LeftMiddle", "LeftIndex", "RightIndex", "RightMiddle"} |->
       CASE f = "LeftMiddle"  -> FingerCfg("KeyW", 12)
         [] f = "LeftIndex"   -> FingerCfg("KeyD", 12)
         [] f = "RightIndex"  -> FingerCfg("KeyF", 2)
         [] f = "RightMiddle" -> FingerCfg("KeyG", 12)]

ShortReachEnvironment ==
    Environment(
        << ScoredKey("KeyW", 0, "LeftMiddle"), ScoredKey("KeyT", 3, "RightIndex"),
           ScoredKey("KeyP", 16, "RightMiddle") >>,
        ShortReachFingerConfig, TestMovementConfig(TRUE), Fingers)

Settings ==
    ({ TestEnvironment } \X { NoLocks, LockOnMovementKey, LockSameKeyTwice, LockDirectional })
    \cup ({ SharedEnvironment } \X { NoLocks, LockSameKeyTwice })
    \cup ({ ScarceEnvironment, FarEnvironment, ShortReachEnvironment } \X { NoLocks })

-----------------------------------------------------------------------------
(* The inputs calculateFriction and optimizeSA are run on *)

\* frequencyWeight in tenths: 1 stands for the default 0.1
Penalties(distanceWeight, frequencyWeight, concurrencyPenalty, exclusiveViolation, unreachablePenalty) ==
    [distanceWeight |-> distanceWeight, frequencyWeight |-> frequencyWeight,
     concurrencyPenalty |-> concurrencyPenalty,
     exclusiveViolation |-> exclusiveViolation,
     unreachablePenalty |-> unreachablePenalty]

DEFAULT_PENALTIES == Penalties(1, 1, 10000, 100000, 50000)

\* A caller's configuration that weighs reach and concurrency heavily.
StrictPenalties == Penalties(2, 10, 2000000, 100000, 2000000)

SAOptions(initialTemp, coolingRate, minTemp, seed) ==
    [initialTemp |-> initialTemp, coolingRate |-> coolingRate, minTemp |-> minTemp,
     seed |-> seed]

\* The number of iterations of the longest run: the initial temperatures
\* are 2, 4, ... 2^MaxHalvings, halved down to the minimum temperature 1.
MaxHalvings == 3

\* The iterations of one call the model follows.
MaxIterations == 8

\* A hot start cooled fast: the temperatures 512, 64 and 8, at which moves
\* that worsen the distance or load terms are accepted now and then.
HotOptions ==
    { SAOptions(Ratio(512, 1), Ratio(1, 8), Ratio(1, 1), seed) : seed \in { << >>, << 21 >> } }

\* Options whose temperatures are subnormal: 8, 6, 4, 3, 2, 2, ... times 2^-1074, where
\* 2 * 0.75 = 1.5 is rounded back to 2.
SubnormalOptions == SAOptions(Tiny(8), Ratio(3, 4), Tiny(1), << 42 >>)

\* A seed whose first draw is above 0.9, the roll of the conflict move.
ConflictOptions == SAOptions(Ratio(4, 1), Ratio(1, 2), Ratio(1, 1), << 120000 >>)

OptionSets ==
    { SAOptions(Ratio(2^k, 1), Ratio(1, 2), Ratio(1, 1), seed) :
        k \in 1..MaxHalvings, seed \in { << >>, << 0 >>, << 42 >> } }
      \cup HotOptions \cup { SubnormalOptions, ConflictOptions }

\* What Date.now() returns to the first and to the second call.
ClockReadings == { << 1000, 1000 >>, << 1000, 2000 >> }

FingerCfgExclusive(restingKey, reach, exclusiveKeys) ==
    [restingKey |-> restingKey, reach |-> reach, exclusiveKeys |-> exclusiveKeys]

\* A keyboard hand and a mouse hand: the mouse fingers own their buttons.
MouseFingerConfig ==
    [f \in {"LeftMiddle", "LeftIndex", "RightIndex", "RightMiddle"} |->
       CASE f = "LeftMiddle"  -> FingerCfg("KeyW", 12)
         [] f = "LeftIndex"   -> FingerCfg("KeyD", 12)
         [] f = "RightIndex"  -> FingerCfgExclusive("MouseLeft", 12, << "MouseLeft" >>)
         [] f = "RightMiddle" -> FingerCfgExclusive("MouseRight", 12, << "MouseRight" >>)]

MouseEnvironment ==
    Environment(
        << ScoredKey("KeyW", 0, "LeftMiddle"), ScoredKey("MouseLeft", 0, "RightIndex"),
           ScoredKey("KeyE", 4, "LeftMiddle"), ScoredKey("KeyS", 4, "LeftMiddle"),
           ScoredKey("KeyF", 4, "LeftIndex"), ScoredKey("KeyT", 16, "LeftIndex") >>,
        MouseFingerConfig, TestMovementConfig(FALSE), Fingers)

\* Scored keys passed in no score order, the farthest first.
UnsortedEnvironment ==
    Environment(
        << ScoredKey("KeyT", 8, "RightIndex"), ScoredKey("KeyW", 0, "LeftMiddle"),
           ScoredKey("KeyG", 4, "RightMiddle"), ScoredKey("KeyF", 0, "RightIndex") >>,
        TestFingerConfig, TestMovementConfig(TRUE), Fingers)

\* Two scored keys only.
CrampedEnvironment ==
    Environment(
        << ScoredKey("KeyW", 0, "LeftMiddle"), ScoredKey("KeyF", 0, "RightIndex") >>,
        TestFingerConfig, TestMovementConfig(TRUE), Fingers)

\* Two keys of one finger come first: the warm start puts two concurrent
\* actions on the right index finger.
CrowdedEnvironment ==
    Environment(
        << ScoredKey("KeyF", 0, "RightIndex"), ScoredKey("KeyT", 8, "RightIndex"),
           ScoredKey("KeyG", 4, "RightMiddle"), ScoredKey("KeyP", 16, "RightMiddle") >>,
        TestFingerConfig, TestMovementConfig(TRUE), Fingers)

SAEnvironments == { UnsortedEnvironment, MouseEnvironment, CrampedEnvironment, CrowdedEnvironment }

SAActionPool ==
    << Action("MoveForward", DIRECTIONAL, 0, 100, << >>),
       Action("DashForward", DIRECTIONAL, 0, 50, << "Jump" >>),
       Action("StrafeLeft", DIRECTIONAL, 0, 50, << >>),
       Action("Jump", COMBAT, 100, 100, << "Shoot" >>),
       Action("Shoot", COMBAT, 100, 50, << "MoveForward" >>),
       Action("Reload", COMBAT, 0, 10, << >>) >>

RECURSIVE SubSequences(_)
\* The sub-sequences of a sequence: some elements dropped, the order kept.
SubSequences(s) ==
    IF s = << >> THEN { << >> }
    ELSE LET rest == SubSequences(Tail(s))
         IN  rest \cup { << Head(s) >> \o t : t \in rest }

\* Action lists of one to MaxActions actions of the pool.
SAActionLists == { acts \in SubSequences(SAActionPool) : Len(acts) \in 1..MaxActions }

\* The context the friction of two layouts is compared in, and the layouts:
\* every placement of its three actions on five keys.
FrictionActions ==
    << Action("MoveForward", DIRECTIONAL, 0, 100, << >>),
       Action("Jump", COMBAT, 100, 100, << "Shoot" >>),
       Action("Shoot", COMBAT, 100, 50, << >>) >>

FrictionEnvironment ==
    Environment(
        << ScoredKey("KeyW", 0, "LeftMiddle"), ScoredKey("KeyS", 4, "LeftMiddle"),
           ScoredKey("KeyD", 0, "LeftIndex"), ScoredKey("KeyF", 0, "RightIndex"),
           ScoredKey("KeyG", 4, "RightMiddle"), ScoredKey("KeyP", 16, "RightIndex"),
           ScoredKey("KeyE", 4, "LeftMiddle"), ScoredKey("KeyO", 16, "RightIndex") >>,
        TestFingerConfig, TestMovementConfig(TRUE), Fingers)

FrictionKeys == {"KeyW", "KeyS", "KeyD", "KeyF", "KeyP", "KeyE", "KeyO"}

FrictionLayouts ==
    { [i \in 1..Len(FrictionActions) |-> [action |-> FrictionActions[i].name, key |-> keys[i]]] :
        keys \in { k \in [1..Len(FrictionActions) -> FrictionKeys] :
                     \A i, j \in 1..Len(FrictionActions) : i # j => k[i] # k[j] } }

-----------------------------------------------------------------------------
(* The calls getDistance, getNearbyKeys and scoreKeys are run on *)

KeyCodes == { AllKeys[i].code : i \in 1..Len(AllKeys) } \cup { UnknownCode }

\* getDistance(key1Id, key2Id)
DistanceCalls ==
    { [op |-> "getDistance", key1Id |-> a, key2Id |-> b] : a, b \in KeyCodes }

\* maxDistance 0, 4, 4.5, the default 7, and 8.5, doubled
Radii == { 0, 8, 9, 14, 17 }

\* getNearbyKeys(targetKeyId, maxDistance)
NearbyCalls ==
    { [op |-> "getNearbyKeys", targetKeyId |-> k, maxDistance |-> r] :
        k \in KeyCodes, r \in Radii }

NoPenalties == [k \in {} |-> 0]

\* Left hand on the keyboard and right hand on the mouse, with exclusive mouse
\* buttons and the penalty -4 on Mouse5, as in the layout presets.
MouseHandConfig ==
    [f \in {"LeftRing", "LeftMiddle", "LeftIndex", "LeftThumb", "RightIndex", "RightThumb"} |->
       CASE f = "LeftRing"   -> FingerSetup("KeyA", 12, << >>, NoPenalties)
         [] f = "LeftMiddle" -> FingerSetup("KeyW", 10, << >>, NoPenalties)
         [] f = "LeftIndex"  -> FingerSetup("KeyD", 12, << >>, NoPenalties)
         [] f = "LeftThumb"  -> FingerSetup("Space", 12, << >>, NoPenalties)
         [] f = "RightIndex" -> FingerSetup("MouseLeft", 4,
                                            << "MouseLeft", "MouseMiddle", "MouseUp" >>,
                                            NoPenalties)
         [] f = "RightThumb" -> FingerSetup("Mouse4", 4, << "Mouse4", "Mouse5" >>,
                                            [k \in {"Mouse4", "Mouse5"} |->
                                               IF k = "Mouse4" THEN 0 ELSE -8])]

\* Penalties on resting keys (5 on KeyW, 1 on KeyD) and negative ones (-2 on
\* KeyE for LeftMiddle, -4 on KeyS for LeftIndex), doubled as the distances are.
PenalisedConfig ==
    [f \in {"LeftRing", "LeftMiddle", "LeftIndex"} |->
       CASE f = "LeftRing"   -> FingerSetup("KeyQ", 12, << >>, NoPenalties)
         [] f = "LeftMiddle" -> FingerSetup("KeyW", 12, << >>,
                                            [k \in {"KeyW", "KeyE"} |->
                                               IF k = "KeyW" THEN 10 ELSE -4])
         [] f = "LeftIndex"  -> FingerSetup("KeyD", 12, << >>,
                                            [k \in {"KeyD", "KeyS"} |->
                                               IF k = "KeyD" THEN 2 ELSE -8])]

\* The thumb's resting key is no key of the tables.
LostThumbConfig ==
    [f \in DOMAIN MouseHandConfig |->
       IF f = "RightThumb"
       THEN FingerSetup("Mouse9", 4, << "Mouse4", "Mouse5" >>, NoPenalties)
       ELSE MouseHandConfig[f]]

\* One finger, resting on a key of no table.
UnknownRestConfig ==
    [f \in {"RightPinky"} |-> FingerSetup(UnknownCode, 12, << >>, NoPenalties)]

\* The middle finger owns its resting key and nothing else; KeyE and KeyQ
\* lie closer to it than to the other fingers.
OwnedHomeKeyConfig ==
    [f \in {"LeftMiddle", "LeftIndex"} |->
       CASE f = "LeftMiddle" -> FingerSetup("KeyW", 12, << "KeyW" >>, NoPenalties)
         [] f = "LeftIndex"  -> FingerSetup("KeyD", 12, << >>, NoPenalties)]

ScoreConfigs ==
    { MouseHandConfig, PenalisedConfig, LostThumbConfig, UnknownRestConfig, OwnedHomeKeyConfig }

\* scoreKeys(fingerConfig, movementKeys, allKeyCodes)
ScoreCalls ==
    { [op |-> "scoreKeys", movementKeys |-> m,
       allKeyCodes |-> << "KeyW", "KeyQ", "KeyE", "KeyD", "KeyS", "Space", "MouseLeft",
                          "MouseMiddle", "Mouse4", "Mouse5", UnknownCode >>] :
        m \in { {}, {"KeyW", "KeyS", "KeyA", "KeyD"} } }

-----------------------------------------------------------------------------
(* The three entry points are run one at a time: while one runs, the state *)
(* of the other two stays as below.                                        *)

ZeroLoad == [f \in Fingers |-> 0]

NoPass == [bindings |-> << >>, actionFingerMap |-> EmptyMap]

NotScored == -1

Runs == 1..2

AllocateIdle ==
    /\ availableFingers = {}
    /\ lockedBinds = EmptyMap
    /\ pc = "idle"
    /\ passLocks = EmptyMap
    /\ idx = 1
    /\ bindings = << >>
    /\ boundKeys = {}
    /\ fingerLoad = ZeroLoad
    /\ actionFingerMap = EmptyMap
    /\ firstPass = NoPass
    /\ result = << >>

FrictionIdle ==
    /\ frictionContext = << >>
    /\ layouts = [i \in 1..2 |-> << >>]
    /\ frictions = [i \in 1..2 |-> NotScored]

KeysIdle ==
    /\ call = [op |-> "none"]
    /\ cursor = 1
    /\ answer = << >>
    /\ keyPc = "idle"

SearchIdle ==
    /\ options = SAOptions(Ratio(1, 1), Ratio(1, 2), Ratio(1, 1), << >>)
    /\ dateNow = << 0, 0 >>
    /\ phase = [r \in Runs |-> "idle"]
    /\ rng = [r \in Runs |-> 0]
    /\ current = [r \in Runs |-> << >>]
    /\ currentScore = [r \in Runs |-> 0]
    /\ best = [r \in Runs |-> << >>]
    /\ bestScore = [r \in Runs |-> 0]
    /\ temp = [r \in Runs |-> Ratio(1, 1)]
    /\ trajectory = [r \in Runs |-> << >>]
    /\ returned = [r \in Runs |-> << >>]
    /\ initial = [layout |-> << >>, score |-> 0]

-----------------------------------------------------------------------------
(* Optimizer.allocate, one action of the pass at a time *)

sortedActions == sortActionsByFrequency(actions)

Init ==
    /\ actions \in ActionLists
    /\ \E setting \in Settings :
          /\ scoredKeys = setting[1].scoredKeys
          /\ fingerConfig = setting[1].fingerConfig
          /\ movementConfig = setting[1].movementConfig
          /\ availableFingers = setting[1].availableFingers
          /\ lockedBinds = setting[2]
    /\ pc = "pass1"
    /\ passLocks = lockedBinds
    /\ idx = 1
    /\ bindings = << >>
    /\ boundKeys = {}
    /\ fingerLoad = ZeroLoad
    /\ actionFingerMap = EmptyMap
    /\ firstPass = NoPass
    /\ result = << >>
    /\ penalties = DEFAULT_PENALTIES
    /\ FrictionIdle
    /\ SearchIdle
    /\ KeysIdle

Inputs == << actions, scoredKeys, fingerConfig, movementConfig, availableFingers,
             lockedBinds >>

\* The body of the loop of allocatePass for sortedActions[idx].
StepResult ==
    allocateActionWithLoad(sortedActions[idx], scoredKeys, boundKeys, passLocks,
                           MapValues(passLocks), fingerLoad, fingerConfig, movementConfig,
                           buildMovementKeySet(movementConfig),
                           buildExclusiveMovementFingers(movementConfig),
                           availableFingers, actionFingerMap, actions)

\* One iteration of the loop of allocatePass that binds the action.
PassBind ==
    /\ pc \in {"pass1", "pass2"}
    /\ idx <= Len(sortedActions)
    /\ StepResult.ok
    /\ bindings' = Append(bindings, [action |-> sortedActions[idx].name,
                                     key |-> StepResult.key])
    /\ boundKeys' = boundKeys \cup {StepResult.key}
    /\ actionFingerMap' = MapSet(actionFingerMap, sortedActions[idx].name,
                                 StepResult.fingers)
    /\ fingerLoad' = StepResult.fingerLoad
    /\ idx' = idx + 1
    /\ UNCHANGED << Inputs, keyVars, penalties, frictionVars, searchVars,
                    pc, passLocks, firstPass, result >>

\* One iteration that leaves the action out (`if (!result) continue`).
PassSkip ==
    /\ pc \in {"pass1", "pass2"}
    /\ idx <= Len(sortedActions)
    /\ ~StepResult.ok
    /\ idx' = idx + 1
    /\ UNCHANGED << Inputs, keyVars, penalties, frictionVars, searchVars,
                    pc, passLocks, bindings, boundKeys, actionFingerMap, fingerLoad, firstPass, result >>

\* allocate returns the first pass: no unassigned action has a concurrentWith list.
ReturnFirstPass ==
    /\ pc = "pass1"
    /\ idx > Len(sortedActions)
    /\ UnassignedConcurrent(actions, bindings) = << >>
    /\ firstPass' = [bindings |-> bindings, actionFingerMap |-> actionFingerMap]
    /\ result' = bindings
    /\ pc' = "done"
    /\ UNCHANGED << Inputs, keyVars, penalties, frictionVars, searchVars,
                    passLocks, idx, bindings, boundKeys, actionFingerMap, fingerLoad >>

\* The second pass appending to the bindings of the first.
StartSecondPassKeepingBindings ==
    /\ pc = "pass1"
    /\ idx > Len(sortedActions)
    /\ UnassignedConcurrent(actions, bindings) # << >>
    /\ firstPass' = [bindings |-> bindings, actionFingerMap |-> actionFingerMap]
    /\ passLocks' = AddLocks(lockedBinds, UnassignedConcurrent(actions, bindings),
                             bindings, actionFingerMap, actions)
    /\ pc' = "pass2"
    /\ idx' = 1
    /\ boundKeys' = {}
    /\ fingerLoad' = ZeroLoad
    /\ actionFingerMap' = EmptyMap
    /\ UNCHANGED << Inputs, keyVars, penalties, frictionVars, searchVars,
                    result, bindings >>

\* The repair adding its locks to the caller's map instead of a copy.
StartSecondPassInCallersMap ==
    /\ pc = "pass1"
    /\ idx > Len(sortedActions)
    /\ UnassignedConcurrent(actions, bindings) # << >>
    /\ firstPass' = [bindings |-> bindings, actionFingerMap |-> actionFingerMap]
    /\ passLocks' = AddLocks(lockedBinds, UnassignedConcurrent(actions, bindings),
                             bindings, actionFingerMap, actions)
    /\ pc' = "pass2"
    /\ idx' = 1
    /\ bindings' = << >>
    /\ boundKeys' = {}
    /\ fingerLoad' = ZeroLoad
    /\ actionFingerMap' = EmptyMap
    /\ lockedBinds' = passLocks'
    /\ UNCHANGED << actions, scoredKeys, fingerConfig, movementConfig, availableFingers,
                    keyVars, penalties, frictionVars, searchVars, result >>

\* allocate pins the unassigned concurrent actions and starts the second pass.
StartSecondPass ==
    /\ pc = "pass1"
    /\ idx > Len(sortedActions)
    /\ UnassignedConcurrent(actions, bindings) # << >>
    /\ firstPass' = [bindings |-> bindings, actionFingerMap |-> actionFingerMap]
    /\ passLocks' = AddLocks(lockedBinds, UnassignedConcurrent(actions, bindings),
                             bindings, actionFingerMap, actions)
    /\ pc' = "pass2"
    /\ idx' = 1
    /\ bindings' = << >>
    /\ boundKeys' = {}
    /\ fingerLoad' = ZeroLoad
    /\ actionFingerMap' = EmptyMap
    /\ UNCHANGED << Inputs, keyVars, penalties, frictionVars, searchVars,
                    result >>

\* allocate returns the bindings of the second pass.
ReturnSecondPass ==
    /\ pc = "pass2"
    /\ idx > Len(sortedActions)
    /\ result' = bindings
    /\ pc' = "done"
    /\ UNCHANGED << Inputs, keyVars, penalties, frictionVars, searchVars,
                    passLocks, idx, bindings, boundKeys, actionFingerMap, fingerLoad, firstPass >>

Next ==
    \/ PassBind
    \/ PassSkip
    \/ ReturnFirstPass
    \/ StartSecondPass
    \/ ReturnSecondPass

Spec == Init /\ [][Next]_vars

-----------------------------------------------------------------------------
(* Properties of the greedy allocator *)

Done == pc = "done"

\* The input action of a name (names are unique).
ActionNamed(name) == actions[CHOOSE i \in 1..Len(actions) : actions[i].name = name]

BoundNames(binds) == { binds[i].action : i \in 1..Len(binds) }

\* The keys a list of bindings gives to the action of a name.
KeysOf(binds, name) == { binds[i].key : i \in { j \in 1..Len(binds) : binds[j].action = name } }

BindingCount(binds, name) == Cardinality({ j \in 1..Len(binds) : binds[j].action = name })

\* allocate took the displacement-repair branch.
RepairRan == firstPass # NoPass /\ UnassignedConcurrent(actions, firstPass.bindings) # << >>

\* One of the two names the other in its concurrentWith list.
Concurrent(a, b) ==
    \/ b.name \in Range(a.concurrentWith)
    \/ a.name \in Range(b.concurrentWith)

\* C1: neither the bindings pushed so far in a pass nor the bindings allocate
\* returns hold the same key twice.
C1_NoKeyBoundTwice ==
    /\ \A i, j \in 1..Len(bindings) : i # j => bindings[i].key # bindings[j].key
    /\ \A i, j \in 1..Len(result) : i # j => result[i].key # result[j].key

\* C2: every input action with a non-empty lock has exactly one binding in the
\* returned list, and that binding's key is the locked key.
C2_LockedActionGetsItsKey ==
    Done => \A i \in 1..Len(actions) :
                LockedKey(lockedBinds, actions[i].name) # "" =>
                    /\ BindingCount(result, actions[i].name) = 1
                    /\ KeysOf(result, actions[i].name) = { lockedBinds[actions[i].name] }

\* A locked DIRECTIONAL action and a locked action in a run whose repair pass ran.
C2_Witness ==
    /\ Done
    /\ RepairRan
    /\ passLocks # lockedBinds
    /\ \E i \in 1..Len(actions) :
          /\ LockedKey(lockedBinds, actions[i].name) # ""
          /\ actions[i].type = DIRECTIONAL
          /\ Len(actions[i].concurrentWith) > 0

\* C3: a key locked for an action is bound, in the returned list, to no other
\* action.
C3_LockedKeyOnlyForItsAction ==
    Done => \A n \in DOMAIN lockedBinds : \A j \in 1..Len(result) :
                result[j].key = lockedBinds[n] => result[j].action = n

\* The two keys of the axis the name of a DIRECTIONAL action selects.
AxisKeys(action) ==
    IF findAxisForAction(action) = "null" THEN {}
    ELSE { movementConfig[findAxisForAction(action)].positiveKey,
           movementConfig[findAxisForAction(action)].negativeKey }

\* C4 as claimed: every returned binding of a DIRECTIONAL action, locked or
\* repaired ones included, has one of the two keys of the action's axis.
C4_DirectionalOnAxisKey ==
    Done => \A j \in 1..Len(result) :
                ActionNamed(result[j].action).type = DIRECTIONAL =>
                    result[j].key \in AxisKeys(ActionNamed(result[j].action))

\* C4 amended: every returned binding of a DIRECTIONAL action that is pinned
\* neither by the caller's lock map nor by a lock of the displacement repair
\* has one of the two keys of the action's axis.
C4_UnpinnedDirectionalOnAxisKey ==
    Done => \A j \in 1..Len(result) :
                /\ ActionNamed(result[j].action).type = DIRECTIONAL
                /\ LockedKey(passLocks, result[j].action) = ""
                => result[j].key \in AxisKeys(ActionNamed(result[j].action))

\* Two unpinned DIRECTIONAL actions of the same axis are bound after a repair.
C4_Witness ==
    /\ Done
    /\ RepairRan
    /\ \E i, j \in 1..Len(result) :
          /\ i # j
          /\ ActionNamed(result[i].action).type = DIRECTIONAL
          /\ ActionNamed(result[j].action).type = DIRECTIONAL
          /\ LockedKey(passLocks, result[i].action) = ""
          /\ LockedKey(passLocks, result[j].action) = ""

\* C5: no two returned bindings of actions one of which names the other in
\* concurrentWith are recorded on a common finger.
C5_ConcurrentOnDistinctFingers ==
    Done => \A i, j \in 1..Len(result) :
                /\ i # j
                /\ Concurrent(ActionNamed(result[i].action), ActionNamed(result[j].action))
                => Range(actionFingerMap[result[i].action])
                     \cap Range(actionFingerMap[result[j].action]) = {}

\* The fingers blocked for c after the first pass, from the claim's words: the
\* fingers recorded for a bound action that names c or is named by c.
C6_Blocked(c) ==
    UNION { Range(firstPass.actionFingerMap[n]) :
              n \in { m \in BoundNames(firstPass.bindings) : Concurrent(c, ActionNamed(m)) } }

\* The first-pass bindings the claim lets c displace.
C6_Eligible(c) ==
    { i \in 1..Len(firstPass.bindings) :
        /\ Range(firstPass.actionFingerMap[firstPass.bindings[i].action]) \ C6_Blocked(c) # {}
        /\ firstPass.bindings[i].action \notin Range(c.concurrentWith) }

\* The lowest frequency among them, the earliest binding on ties.
C6_Victim(c) ==
    CHOOSE i \in C6_Eligible(c) :
        \A j \in C6_Eligible(c) :
            LET fi == ActionNamed(firstPass.bindings[i].action).useFrequency
                fj == ActionNamed(firstPass.bindings[j].action).useFrequency
            IN  fi < fj \/ (fi = fj /\ i <= j)

\* The actions the first pass left unbound that carry a concurrentWith list.
C6_Unassigned ==
    { a \in Range(actions) :
        a.name \notin BoundNames(firstPass.bindings) /\ Len(a.concurrentWith) > 0 }

\* C6 as claimed: an action with a concurrentWith list that the first pass left
\* unbound is returned on the key of its victim, and is absent from the
\* returned list when it has no victim.
C6_RepairBindsVictimKeyOrNothing ==
    Done /\ firstPass # NoPass =>
        \A c \in C6_Unassigned :
            IF C6_Eligible(c) # {}
            THEN /\ BindingCount(result, c.name) = 1
                 /\ KeysOf(result, c.name) = { firstPass.bindings[C6_Victim(c)].key }
            ELSE c.name \notin BoundNames(result)

\* C6 amended: such an action is returned on the key of its victim; when it has
\* no victim it is given no lock, and it is absent from the returned list if no
\* unbound action with a concurrentWith list has a victim.
C6_RepairBindsVictimKey ==
    Done /\ firstPass # NoPass =>
        \A c \in C6_Unassigned :
            IF C6_Eligible(c) # {}
            THEN /\ BindingCount(result, c.name) = 1
                 /\ KeysOf(result, c.name) = { firstPass.bindings[C6_Victim(c)].key }
            ELSE /\ c.name \notin DOMAIN passLocks \ DOMAIN lockedBinds
                 /\ (\A d \in C6_Unassigned : C6_Eligible(d) = {})
                       => c.name \notin BoundNames(result)

\* A repair with a choice between victims of different frequencies, the more
\* frequent one bound first.
C6_Witness ==
    /\ Done
    /\ \E c \in C6_Unassigned :
          /\ Cardinality(C6_Eligible(c)) >= 2
          /\ C6_Victim(c) # 1
          /\ c.name \in BoundNames(result)

\* Position of the action of a name in the input list.
InputIndex(name) == CHOOSE i \in 1..Len(actions) : actions[i].name = name

\* The keys a non-DIRECTIONAL action may take before anything is bound.
InitiallyEligible(a) ==
    { sk \in Range(scoredKeys) :
        Eligible(sk, a, {}, MapValues(lockedBinds), fingerConfig,
                 buildMovementKeySet(movementConfig),
                 buildExclusiveMovementFingers(movementConfig), availableFingers, {}) }

\* The input of the scenario: two unlocked non-DIRECTIONAL actions of frequency
\* 100 and 10, in this or the other order, and two eligible keys, of different
\* fingers, with scores 0 and 4.
C10_Scenario(hi, lo) ==
    /\ Len(actions) = 2
    /\ { hi, lo } = {1, 2}
    /\ actions[hi].useFrequency = 100 /\ actions[lo].useFrequency = 10
    /\ \A i \in {1, 2} : /\ actions[i].type # DIRECTIONAL
                         /\ LockedKey(lockedBinds, actions[i].name) = ""
    /\ InitiallyEligible(actions[hi]) = InitiallyEligible(actions[lo])
    /\ { sk.totalScore : sk \in InitiallyEligible(actions[hi]) } = {0, 4}
    /\ Cardinality(InitiallyEligible(actions[hi])) = 2
    /\ Cardinality({ sk.bestFinger : sk \in InitiallyEligible(actions[hi]) }) = 2

BestFingersOf(code) == { sk.bestFinger : sk \in { k \in Range(scoredKeys) : k.code = code } }

\* The key is no axis key, and its best finger is on no exclusive axis and is
\* one of the available fingers.
FreeForNonMovement(code) ==
    /\ code \notin buildMovementKeySet(movementConfig)
    /\ BestFingersOf(code) \cap buildExclusiveMovementFingers(movementConfig) = {}
    /\ BestFingersOf(code) \subseteq availableFingers

\* C11, as claimed: in the returned list, whether or not the repair pass ran,
\* a non-DIRECTIONAL action without an entry in the caller's lock map is bound
\* to no axis key, to no key of a finger of an exclusive axis and to no key of
\* a finger outside the available fingers.
C11_UnlockedOffMovementKeys ==
    Done => \A j \in 1..Len(result) :
                /\ ActionNamed(result[j].action).type # DIRECTIONAL
                /\ result[j].action \notin DOMAIN lockedBinds
                => FreeForNonMovement(result[j].key)

\* C11, amended: the same for the non-DIRECTIONAL actions pinned neither by
\* the caller's lock map nor by a lock of the displacement repair; and their
\* key is a scored key.
C11_UnpinnedOffMovementKeys ==
    Done => \A j \in 1..Len(result) :
                /\ ActionNamed(result[j].action).type # DIRECTIONAL
                /\ LockedKey(passLocks, result[j].action) = ""
                => /\ FreeForNonMovement(result[j].key)
                   /\ BestFingersOf(result[j].key) # {}

\* A repair pass ran, and next to the action it pinned an unpinned
\* non-DIRECTIONAL action is bound, with axis keys, exclusive axis fingers and
\* an unavailable finger among the scored keys.
C11_Witness ==
    /\ Done
    /\ RepairRan
    /\ passLocks # lockedBinds
    /\ \E j \in 1..Len(result) :
          /\ ActionNamed(result[j].action).type # DIRECTIONAL
          /\ LockedKey(passLocks, result[j].action) = ""
    /\ \E sk \in Range(scoredKeys) : ~FreeForNonMovement(sk.code)

\* The score of every scored key of the code is within the cap of the
\* priority: totalScore <= 4 + (reach - 4) * (100 - priority) / 99, the reach
\* being that of the key's best finger.
WithinCap(code, priority) ==
    \A sk \in { k \in Range(scoredKeys) : k.code = code } :
        /\ sk.bestFinger \in DOMAIN fingerConfig
        /\ 99 * (sk.totalScore - 4)
              <= (fingerConfig[sk.bestFinger].reach - 4) * (100 - priority)

\* C12, as claimed: a returned non-DIRECTIONAL action of priority p > 0
\* without an entry in the caller's lock map has a key scored within the cap
\* of p.
C12_UnlockedWithinCap ==
    Done => \A j \in 1..Len(result) :
                /\ ActionNamed(result[j].action).type # DIRECTIONAL
                /\ ActionNamed(result[j].action).priority > 0
                /\ result[j].action \notin DOMAIN lockedBinds
                => WithinCap(result[j].key, ActionNamed(result[j].action).priority)

\* C12, amended: the same for the actions pinned neither by the caller nor by
\* the displacement repair; with priority 100 the key is scored 4 at most.
C12_UnpinnedWithinCap ==
    Done => \A j \in 1..Len(result) :
                /\ ActionNamed(result[j].action).type # DIRECTIONAL
                /\ ActionNamed(result[j].action).priority > 0
                /\ LockedKey(passLocks, result[j].action) = ""
                => /\ WithinCap(result[j].key, ActionNamed(result[j].action).priority)
                   /\ ActionNamed(result[j].action).priority = 100
                         => \A sk \in Range(scoredKeys) :
                               sk.code = result[j].key => sk.totalScore <= 4

\* An action of priority 50 on a key scored above 4, next to an action of
\* priority 0 on a key scored above the reach of its finger.
C12_Witness ==
    /\ Done
    /\ \E j \in 1..Len(result) : \E sk \in Range(scoredKeys) :
          /\ ActionNamed(result[j].action).priority \in 1..99
          /\ LockedKey(passLocks, result[j].action) = ""
          /\ sk.code = result[j].key
          /\ sk.totalScore > 4
    /\ \E j \in 1..Len(result) : \E sk \in Range(scoredKeys) :
          /\ ActionNamed(result[j].action).type # DIRECTIONAL
          /\ ActionNamed(result[j].action).priority = 0
          /\ LockedKey(passLocks, result[j].action) = ""
          /\ sk.code = result[j].key
          /\ sk.totalScore > fingerConfig[sk.bestFinger].reach

\* A DIRECTIONAL action allocateMovementAction has no key for: its name has
\* no direction word, or no key of its axis is among the scored keys.
NoAxisKeyScored(action) ==
    /\ action.type = DIRECTIONAL
    /\ \/ findAxisForAction(action) = "null"
       \/ \A i \in 1..Len(scoredKeys) :
             scoredKeys[i].code \notin { movementConfig[findAxisForAction(action)].positiveKey,
                                         movementConfig[findAxisForAction(action)].negativeKey }

\* C16: allocate raises no error on any input with unique action names: every
\* step of a pass yields a binding or none, and the list it returns binds input
\* actions only, each at most once; a DIRECTIONAL action without a direction word or
\* without a scored axis key, and any other action with no eligible key, is
\* absent from it unless a lock or the repair pins it.
C16_FailureIsOmission ==
    /\ (pc \in {"pass1", "pass2"} /\ idx <= Len(sortedActions)) =>
          /\ StepResult.ok \in BOOLEAN
          /\ StepResult.ok => StepResult.key \in { scoredKeys[i].code : i \in 1..Len(scoredKeys) }
                                                \cup MapValues(passLocks)
    /\ Done =>
          /\ BoundNames(result) \subseteq Names(actions)
          /\ \A name \in Names(actions) : BindingCount(result, name) <= 1
          /\ \A i \in 1..Len(actions) :
                (NoAxisKeyScored(actions[i]) /\ LockedKey(passLocks, actions[i].name) = "")
                    => actions[i].name \notin BoundNames(result)

\* allocate returned bindings and left out a DIRECTIONAL action without a
\* direction word and one whose axis has no free scored key.
C16_Witness ==
    /\ Done
    /\ result # << >>
    /\ \E i, j \in 1..Len(actions) :
          /\ actions[i].type = DIRECTIONAL /\ findAxisForAction(actions[i]) = "null"
          /\ actions[j].type = DIRECTIONAL /\ findAxisForAction(actions[j]) # "null"
          /\ { actions[i].name, actions[j].name } \cap BoundNames(result) = {}

-----------------------------------------------------------------------------
(* calculateFriction applied to two layouts of one context *)

InitFriction ==
    /\ actions = FrictionActions
    /\ scoredKeys = FrictionEnvironment.scoredKeys
    /\ fingerConfig = FrictionEnvironment.fingerConfig
    /\ movementConfig = FrictionEnvironment.movementConfig
    /\ penalties \in { DEFAULT_PENALTIES, StrictPenalties }
    /\ frictionContext = buildFrictionContext(actions, scoredKeys, fingerConfig, movementConfig)
    /\ layouts \in [1..2 -> FrictionLayouts]
    /\ frictions = [i \in 1..2 |-> NotScored]
    /\ AllocateIdle
    /\ SearchIdle
    /\ KeysIdle

\* calculateFriction(layouts[i], ctx, penalties)
Score(i) ==
    /\ frictions[i] = NotScored
    /\ frictions' = [frictions EXCEPT ![i] = calculateFriction(layouts[i], frictionContext, penalties)]
    /\ UNCHANGED << Inputs, keyVars, allocateVars, searchVars, penalties, frictionContext, layouts >>

NextFriction == \E i \in 1..2 : Score(i)

SpecFriction == InitFriction /\ [][NextFriction]_vars

\* The layouts puts a DIRECTIONAL action whose name selects a direction on
\* another key than the one selected.
Misplaced(l) ==
    \E i \in 1..Len(l) :
        LET a == ActionIndex(actions, l[i].action) IN
        /\ a # 0
        /\ actions[a].type = DIRECTIONAL
        /\ DirectionKey(l[i].action, movementConfig) # Undefined
        /\ l[i].key # DirectionKey(l[i].action, movementConfig)

\* C8: a layouts with a misplaced DIRECTIONAL action has a strictly higher
\* frictions than a layouts with none, whatever the other penalty categories
\* and the penalty configuration contribute.
C8_MisplacedDirectionalScoresHigher ==
    (/\ frictions[1] # NotScored
     /\ frictions[2] # NotScored
     /\ Misplaced(layouts[1])
     /\ ~Misplaced(layouts[2]))
    => frictions[1] > frictions[2]

\* The layout incurs a hard-rule penalty of calculateFriction: a DIRECTIONAL
\* action off its key (1), another action on a movement key (2), an
\* exclusive-key mismatch (3) or another action on an exclusive movement
\* finger (5).
BreaksHardRule(l) ==
    \E i \in 1..Len(l) :
        LET a == ActionIndex(actions, l[i].action)
            finger == keyToFinger(frictionContext, l[i].key)
        IN  /\ a # 0
            /\ WrongMovementKeyTerm(actions[a], l[i].key, frictionContext)
                 + OnMovementKeyTerm(actions[a], l[i].key, frictionContext)
                 + ExclusiveMismatchTerm(finger, l[i].key, frictionContext)
                 + ExclusiveViolationTerm(actions[a], finger, frictionContext, penalties) > 0

\* C20: with the default penalties, a layout that incurs a hard-rule penalty
\* never has a lower friction than a layout that incurs none, however large
\* the distance, reach, concurrency and load terms of the latter are.
C20_HardRuleNeverScoresBetter ==
    (/\ penalties = DEFAULT_PENALTIES
     /\ frictions[1] # NotScored
     /\ frictions[2] # NotScored
     /\ BreaksHardRule(layouts[1])
     /\ ~BreaksHardRule(layouts[2]))
    => frictions[1] >= frictions[2]

-----------------------------------------------------------------------------
(* optimizeSA, called twice in a row on the same arguments; a call         *)
(* advances one loop iteration at a time.                                  *)

InitSA ==
    /\ actions \in SAActionLists
    /\ \E environment \in SAEnvironments :
          /\ scoredKeys = environment.scoredKeys
          /\ fingerConfig = environment.fingerConfig
          /\ movementConfig = environment.movementConfig
    /\ penalties = DEFAULT_PENALTIES
    /\ options \in OptionSets
    /\ dateNow \in ClockReadings
    /\ phase = [r \in Runs |-> "called"]
    /\ rng = [r \in Runs |-> 0]
    /\ current = [r \in Runs |-> << >>]
    /\ currentScore = [r \in Runs |-> 0]
    /\ best = [r \in Runs |-> << >>]
    /\ bestScore = [r \in Runs |-> 0]
    /\ temp = [r \in Runs |-> Ratio(1, 1)]
    /\ trajectory = [r \in Runs |-> << >>]
    /\ returned = [r \in Runs |-> << >>]
    /\ frictionContext = buildFrictionContext(actions, scoredKeys, fingerConfig, movementConfig)
    /\ \E layout \in { generateInitialLayout(actions, scoredKeys, movementConfig, fingerConfig) } :
          initial = [layout |-> layout,
                     score |-> calculateFriction(layout, frictionContext, penalties)]
    /\ layouts = [i \in 1..2 |-> << >>]
    /\ frictions = [i \in 1..2 |-> NotScored]
    /\ AllocateIdle
    /\ KeysIdle

warmStart == generateInitialLayout(actions, scoredKeys, movementConfig, fingerConfig)

\* optimizeSA up to its loop: the generator, the warm start and its score
\* (`initial`, which the inputs determine).
Start(r) ==
    /\ phase[r] = "called"
    /\ \A earlier \in 1..(r - 1) : phase[earlier] = "returned"
    /\ rng' = [rng EXCEPT ![r] = SeedOrNow(options, dateNow[r])]
    /\ current' = [current EXCEPT ![r] = initial.layout]
    /\ currentScore' = [currentScore EXCEPT ![r] = initial.score]
    /\ best' = [best EXCEPT ![r] = initial.layout]
    /\ bestScore' = [bestScore EXCEPT ![r] = initial.score]
    /\ temp' = [temp EXCEPT ![r] = options.initialTemp]
    /\ phase' = [phase EXCEPT ![r] = "loop"]
    /\ UNCHANGED << Inputs, keyVars, allocateVars, frictionVars, penalties, options, dateNow,
                    trajectory, returned, initial >>

\* The loop body taking every accepted neighbor for the best layout.
IterateTrackingCurrent(r) ==
    /\ phase[r] = "loop"
    /\ Above(temp[r], options.minTemp)
    /\ Len(trajectory[r]) < MaxIterations
    /\ \E fingerLoads \in { calculateFingerLoads(current[r], frictionContext) } :
       \E m \in { mutate(current[r], fingerLoads, actions, frictionContext, rng[r]) } :
       \E neighborScore \in { calculateFriction(m.layout, frictionContext, penalties) } :
       \E draw \in { next(m.seed) } :
       \E accepted \in { neighborScore < currentScore[r]
                           \/ AcceptsWorse(draw, neighborScore - currentScore[r], temp[r]) } :
          /\ rng' = [rng EXCEPT ![r] = IF neighborScore < currentScore[r] THEN m.seed ELSE draw]
          /\ current' = [current EXCEPT ![r] = IF accepted THEN m.layout ELSE @]
          /\ currentScore' = [currentScore EXCEPT ![r] = IF accepted THEN neighborScore ELSE @]
          /\ best' = [best EXCEPT ![r] = IF accepted THEN m.layout ELSE @]
          /\ bestScore' = [bestScore EXCEPT ![r] = IF accepted THEN neighborScore ELSE @]
          /\ temp' = [temp EXCEPT ![r] = Cooled(@, options.coolingRate)]
          /\ trajectory' = [trajectory EXCEPT
                              ![r] = Append(@, [move |-> m.move,
                                                neighbor |-> m.layout,
                                                delta |-> neighborScore - currentScore[r],
                                                accepted |-> accepted,
                                                rng |-> rng'[r],
                                                current |-> current'[r],
                                                best |-> best'[r]])]
    /\ UNCHANGED << Inputs, keyVars, allocateVars, frictionVars, penalties, options, dateNow,
                    phase, returned, initial >>

\* One iteration of the loop.  In `delta < 0 || rng.next() < Math.exp(-delta /
\* temp)` the generator is drawn from only when delta >= 0.
Iterate(r) ==
    /\ phase[r] = "loop"
    /\ Above(temp[r], options.minTemp)
    /\ Len(trajectory[r]) < MaxIterations
    /\ \E fingerLoads \in { calculateFingerLoads(current[r], frictionContext) } :
       \E m \in { mutate(current[r], fingerLoads, actions, frictionContext, rng[r]) } :
       \E neighborScore \in { calculateFriction(m.layout, frictionContext, penalties) } :
       \E draw \in { next(m.seed) } :
       \E accepted \in { neighborScore < currentScore[r]
                           \/ AcceptsWorse(draw, neighborScore - currentScore[r], temp[r]) } :
          /\ rng' = [rng EXCEPT ![r] = IF neighborScore < currentScore[r] THEN m.seed ELSE draw]
          /\ current' = [current EXCEPT ![r] = IF accepted THEN m.layout ELSE @]
          /\ currentScore' = [currentScore EXCEPT ![r] = IF accepted THEN neighborScore ELSE @]
          /\ best' = [best EXCEPT
                        ![r] = IF accepted /\ neighborScore < bestScore[r] THEN m.layout ELSE @]
          /\ bestScore' = [bestScore EXCEPT
                             ![r] = IF accepted /\ neighborScore < @ THEN neighborScore ELSE @]
          /\ temp' = [temp EXCEPT ![r] = Cooled(@, options.coolingRate)]
          /\ trajectory' = [trajectory EXCEPT
                              ![r] = Append(@, [move |-> m.move,
                                                neighbor |-> m.layout,
                                                delta |-> neighborScore - currentScore[r],
                                                accepted |-> accepted,
                                                rng |-> rng'[r],
                                                current |-> current'[r],
                                                best |-> best'[r]])]
    /\ UNCHANGED << Inputs, keyVars, allocateVars, frictionVars, penalties, options, dateNow,
                    phase, returned, initial >>

\* `return best` once the temperature is down to the minimum.
Return(r) ==
    /\ phase[r] = "loop"
    /\ ~Above(temp[r], options.minTemp)
    /\ returned' = [returned EXCEPT ![r] = best[r]]
    /\ phase' = [phase EXCEPT ![r] = "returned"]
    /\ UNCHANGED << Inputs, keyVars, allocateVars, frictionVars, penalties, options, dateNow,
                    rng, current, currentScore, best, bestScore, temp, trajectory, initial >>

NextSA == \E r \in Runs : Start(r) \/ Iterate(r) \/ Return(r)

SpecSA == InitSA /\ [][NextSA]_vars

-----------------------------------------------------------------------------
(* Properties of optimizeSA *)

Returned(r) == phase[r] = "returned"

\* The DIRECTIONAL actions whose names select a direction, with their keys.
movementMap == buildMovementActionMap(actions, movementConfig)

\* The actions the warm start has to find a key for.
NonMovement == { a \in Range(actions) : ~LayoutHas(movementMap, a.name) }

\* The keys the warm start can give them: exclusive keys and scored keys,
\* less the keys of the movement actions.
SpareKeys ==
    (UNION { Range(fingerConfig[f].exclusiveKeys) : f \in DOMAIN fingerConfig }
       \cup { scoredKeys[i].code : i \in 1..Len(scoredKeys) })
    \ LayoutKeys(movementMap)

DistinctDirections ==
    \A i, j \in 1..Len(movementMap) : i # j => movementMap[i].key # movementMap[j].key

EnoughKeys == Cardinality(NonMovement) <= Cardinality(SpareKeys)

\* Every action has one entry, and no key has two.
Bijection(l) ==
    /\ Range(LayoutNames(l)) = Names(actions)
    /\ Len(l) = Len(actions)
    /\ Cardinality(LayoutKeys(l)) = Len(actions)

C9_SameSeedSameRun ==
    options.seed # << >> =>
        /\ \A i \in 1..Len(trajectory[2]) : trajectory[2][i] = trajectory[1][i]
        /\ (Returned(1) /\ Returned(2)) =>
              /\ trajectory[1] = trajectory[2]
              /\ rng[1] = rng[2]
              /\ current[1] = current[2]
              /\ best[1] = best[2]
              /\ returned[1] = returned[2]

\* Two seeded calls made at different times, each with an accepted move
\* that changed the layout and a rejected one.
C9_Witness ==
    /\ options.seed # << >>
    /\ dateNow[1] # dateNow[2]
    /\ Returned(1)
    /\ Returned(2)
    /\ \E i \in 1..Len(trajectory[2]) :
          trajectory[2][i].accepted /\ trajectory[2][i].neighbor # warmStart
    /\ \E i \in 1..Len(trajectory[2]) : ~trajectory[2][i].accepted
    /\ returned[2] # warmStart

-----------------------------------------------------------------------------
(* One call of getDistance (with the two calls its symmetry and its zero   *)
(* are read from), of getNearbyKeys or of scoreKeys, a loop iteration at a *)
(* time.                                                                   *)

InitKeys ==
    /\ call \in DistanceCalls \cup NearbyCalls \cup ScoreCalls
    /\ fingerConfig \in (IF call.op = "scoreKeys" THEN ScoreConfigs ELSE { EmptyMap })
    /\ actions = << >>
    /\ scoredKeys = << >>
    /\ movementConfig = TestMovementConfig(TRUE)
    /\ penalties = DEFAULT_PENALTIES
    /\ cursor = 1
    /\ answer = << >>
    /\ keyPc = "called"
    /\ AllocateIdle
    /\ FrictionIdle
    /\ SearchIdle

\* getDistance(key1Id, key2Id), then getDistance(key2Id, key1Id), then
\* getDistance(key1Id, key1Id)
DistanceQueries ==
    << << call.key1Id, call.key2Id >>, << call.key2Id, call.key1Id >>,
       << call.key1Id, call.key1Id >> >>

GetDistance ==
    /\ keyPc = "called"
    /\ call.op = "getDistance"
    /\ answer' = Append(answer, getDistance(DistanceQueries[cursor][1],
                                            DistanceQueries[cursor][2]))
    /\ cursor' = cursor + 1
    /\ keyPc' = IF cursor = Len(DistanceQueries) THEN "returned" ELSE keyPc
    /\ UNCHANGED << Inputs, allocateVars, frictionVars, searchVars, penalties, call >>

\* getNearbyKeys of a code the key map does not have: `return []`
UnknownTarget ==
    /\ keyPc = "called"
    /\ call.op = "getNearbyKeys"
    /\ ~KeyKnown(call.targetKeyId)
    /\ keyPc' = "returned"
    /\ UNCHANGED << Inputs, allocateVars, frictionVars, searchVars, penalties, call,
                    cursor, answer >>

\* What the loop of findKeysWithinRadius does with sortedKeysX[cursor].
Verdict ==
    SweepVerdict(sortedKeysX[cursor], getKeyCenter(keyMap(call.targetKeyId)),
                 call.maxDistance, call.targetKeyId)

Sweeping ==
    /\ keyPc = "called"
    /\ call.op = "getNearbyKeys"
    /\ KeyKnown(call.targetKeyId)
    /\ cursor <= Len(sortedKeysX)

SweepContinue ==
    /\ Sweeping
    /\ Verdict = "continue"
    /\ cursor' = cursor + 1
    /\ UNCHANGED << Inputs, allocateVars, frictionVars, searchVars, penalties, call,
                    answer, keyPc >>

SweepPush ==
    /\ Sweeping
    /\ Verdict = "push"
    /\ answer' = Append(answer,
                        [key |-> sortedKeysX[cursor].code,
                         distance |-> euclidean(getKeyCenter(keyMap(call.targetKeyId)),
                                                getKeyCenter(sortedKeysX[cursor]))])
    /\ cursor' = cursor + 1
    /\ UNCHANGED << Inputs, allocateVars, frictionVars, searchVars, penalties, call,
                    keyPc >>

\* `break`, and the return of the results so far
SweepBreak ==
    /\ Sweeping
    /\ Verdict = "break"
    /\ keyPc' = "returned"
    /\ UNCHANGED << Inputs, allocateVars, frictionVars, searchVars, penalties, call,
                    cursor, answer >>

\* The return after the last key.
SweepEnd ==
    /\ keyPc = "called"
    /\ call.op = "getNearbyKeys"
    /\ KeyKnown(call.targetKeyId)
    /\ cursor > Len(sortedKeysX)
    /\ keyPc' = "returned"
    /\ UNCHANGED << Inputs, allocateVars, frictionVars, searchVars, penalties, call,
                    cursor, answer >>

\* scoreKeys: the map and the filter, for allKeyCodes[cursor]
ScoreKey ==
    /\ keyPc = "called"
    /\ call.op = "scoreKeys"
    /\ cursor <= Len(call.allKeyCodes)
    /\ answer' = answer \o scoreKey(call.allKeyCodes[cursor], fingerConfig,
                                    call.movementKeys)
    /\ cursor' = cursor + 1
    /\ UNCHANGED << Inputs, allocateVars, frictionVars, searchVars, penalties, call,
                    keyPc >>

ReturnScored ==
    /\ keyPc = "called"
    /\ call.op = "scoreKeys"
    /\ cursor > Len(call.allKeyCodes)
    /\ keyPc' = "returned"
    /\ UNCHANGED << Inputs, allocateVars, frictionVars, searchVars, penalties, call,
                    cursor, answer >>

NextKeys ==
    \/ GetDistance
    \/ UnknownTarget
    \/ SweepContinue
    \/ SweepPush
    \/ SweepBreak
    \/ SweepEnd
    \/ ScoreKey
    \/ ReturnScored

SpecKeys == InitKeys /\ [][NextKeys]_vars

-----------------------------------------------------------------------------
(* Claims about getDistance, getNearbyKeys and scoreKeys *)

\* scoreKeys has returned its list of scored keys.
ScoredReturned == keyPc = "returned" /\ call.op = "scoreKeys"

\* C13: every ScoredKey scoreKeys returns has isRestingKey true exactly when
\* its totalScore is 0, whatever the key penalties of the finger configuration
\* are (positive, zero or negative).
C13_RestingIffZeroScore ==
    call.op = "scoreKeys" =>
        \A i \in 1..Len(answer) :
            answer[i].isRestingKey <=> (answer[i].totalScore = Zero)

\* scoreKeys returned a finger's resting key with a positive penalty, not
\* marked a resting key, and another key whose negative penalty cancels its
\* distance, marked a resting key.
C13_Witness ==
    /\ ScoredReturned
    /\ \E i \in 1..Len(answer) :
          /\ answer[i].code = answer[i].originKey
          /\ Less(Zero, answer[i].totalScore)
          /\ ~answer[i].isRestingKey
    /\ \E i \in 1..Len(answer) :
          /\ answer[i].code # answer[i].originKey
          /\ Penalty(fingerConfig[answer[i].bestFinger], answer[i].code) < 0
          /\ answer[i].totalScore = Zero
          /\ answer[i].isRestingKey

\* getNearbyKeys has returned.
NearbyReturned == keyPc = "returned" /\ call.op = "getNearbyKeys"

\* Four times the squared distance between the centers of two keys, from their
\* x, y, width and height.
SquaredGap(keyA, keyB) ==
    LET height(key) == IF "height" \in DOMAIN key THEN key.height ELSE 4
        dx == (2 * keyA.x + keyA.width) - (2 * keyB.x + keyB.width)
        dy == (2 * keyA.y + height(keyA)) - (2 * keyB.y + height(keyB))
    IN  dx * dx + dy * dy

\* The number whose square is a quarter of `squared`.
IsHalfRootOf(number, squared) ==
    \/ number.root = 0 /\ number.plus >= 0 /\ number.plus * number.plus = squared
    \/ number.root = squared /\ number.plus = 0

\* The keys a scan of all keys with the radius test alone finds.
NaiveScan(targetKeyId, maxDistance) ==
    { i \in 1..Len(AllKeys) :
        /\ AllKeys[i].code # targetKeyId
        /\ SquaredGap(AllKeys[i], keyMap(targetKeyId)) <= maxDistance * maxDistance }

\* C14: for a known target and maxDistance >= 0, getNearbyKeys returns exactly
\* the keys other than the target whose center is within maxDistance of the
\* target's center, each once and with that distance, as a scan over all keys
\* with only the radius test does; for an unknown target it returns the empty
\* list.
C14_SweepIsNaiveScan ==
    NearbyReturned =>
        IF ~KeyKnown(call.targetKeyId) THEN answer = << >>
        ELSE /\ { answer[i].key : i \in 1..Len(answer) }
                  = { AllKeys[i].code : i \in NaiveScan(call.targetKeyId, call.maxDistance) }
             /\ Len(answer) = Cardinality(NaiveScan(call.targetKeyId, call.maxDistance))
             /\ \A i \in 1..Len(answer) :
                   IsHalfRootOf(answer[i].distance,
                                SquaredGap(keyMap(answer[i].key), keyMap(call.targetKeyId)))

\* A sweep that skipped a key left of the window, skipped one outside the y
\* window, rejected one inside the square but outside the radius, found a
\* neighbour and broke off before the end of the list.
C14_Witness ==
    /\ NearbyReturned
    /\ KeyKnown(call.targetKeyId)
    /\ cursor <= Len(sortedKeysX)
    /\ answer # << >>
    /\ \E i, j, k \in 1..(cursor - 1) :
          LET center == getKeyCenter(keyMap(call.targetKeyId))
              cx(n) == getKeyCenter(sortedKeysX[n]).x - center.x
              cy(n) == getKeyCenter(sortedKeysX[n]).y - center.y
          IN  /\ cx(i) < 0 - call.maxDistance
              /\ Abs(cx(j)) <= call.maxDistance /\ Abs(cy(j)) > call.maxDistance
              /\ Abs(cx(k)) <= call.maxDistance /\ Abs(cy(k)) <= call.maxDistance
              /\ cx(k) * cx(k) + cy(k) * cy(k) > call.maxDistance * call.maxDistance

\* The fingers findClosestRestingFinger considers for a key: those whose
\* exclusive list has it, and those with no exclusive keys.
CandidateFingers(keyCode) ==
    { f \in DOMAIN fingerConfig :
        \/ keyCode \in Range(fingerConfig[f].exclusiveKeys)
        \/ fingerConfig[f].exclusiveKeys = << >> }

\* The finger has a real distance to the key: the key is its resting key (0),
\* or both are keys of the key map.
RealDistance(f, keyCode) ==
    \/ keyCode = fingerConfig[f].restingKey
    \/ KeyKnown(keyCode) /\ KeyKnown(fingerConfig[f].restingKey)

\* The key codes scoreKeys has dealt with so far.
ScoredCodes == { call.allKeyCodes[i] : i \in 1..(cursor - 1) }

\* C15: getDistance returns the sentinel -1 exactly when one of the two codes
\* is not in the key map, and a distance >= 0 otherwise; scoreKeys leaves out
\* every key code no candidate finger has a real distance to, and every score
\* it returns is a penalty of the best finger plus a real distance (0 on the
\* finger's own resting key, else the gap between the centers of two keys of
\* the key map).
C15_SentinelStaysOutOfScores ==
    /\ call.op = "getDistance" =>
          \A i \in 1..Len(answer) :
              /\ answer[i] = NotFound <=> (\E k \in 1..2 : ~KeyKnown(DistanceQueries[i][k]))
              /\ answer[i] # NotFound => ~Less(answer[i], Zero)
    /\ call.op = "scoreKeys" =>
          /\ \A code \in ScoredCodes :
                (\A f \in CandidateFingers(code) : ~RealDistance(f, code))
                    => \A i \in 1..Len(answer) : answer[i].code # code
          /\ \A i \in 1..Len(answer) :
                LET scored == answer[i]
                    distance == Plus(scored.totalScore,
                                     0 - Penalty(fingerConfig[scored.bestFinger], scored.code))
                IN  /\ scored.originKey = fingerConfig[scored.bestFinger].restingKey
                    /\ IF scored.code = scored.originKey THEN distance = Zero
                       ELSE /\ KeyKnown(scored.code) /\ KeyKnown(scored.originKey)
                            /\ IsHalfRootOf(distance, SquaredGap(keyMap(scored.code),
                                                                 keyMap(scored.originKey)))

\* scoreKeys returned scores, passed over a finger whose resting key the key
\* map does not have, and left out a key code no finger has a distance to.
C15_Witness ==
    /\ ScoredReturned
    /\ answer # << >>
    /\ \E f \in DOMAIN fingerConfig : ~KeyKnown(fingerConfig[f].restingKey)
    /\ \E code \in ScoredCodes :
          /\ \A f \in CandidateFingers(code) : getDistance(code, fingerConfig[f].restingKey) = NotFound
          /\ \A i \in 1..Len(answer) : answer[i].code # code

\* getDistance(a, b), getDistance(b, a) and getDistance(a, a) have returned.
DistanceReturned == keyPc = "returned" /\ call.op = "getDistance"

\* C17: for two known keys a and b, getDistance(a, b) is the Euclidean distance
\* between the centers (x + width/2, y + height/2, height 4 by default),
\* getDistance(b, a) is the same number and getDistance(a, a) is exactly 0;
\* two keys of width 4 in one row whose x differ by 4 are exactly 4 apart.
C17_EuclideanBetweenCenters ==
    (DistanceReturned /\ KeyKnown(call.key1Id) /\ KeyKnown(call.key2Id)) =>
        LET a == keyMap(call.key1Id)
            b == keyMap(call.key2Id)
        IN  /\ IsHalfRootOf(answer[1], SquaredGap(a, b))
            /\ answer[2] = answer[1]
            /\ answer[3] = Zero
            /\ (a.width = 4 /\ b.width = 4 /\ a.y = b.y /\ Abs(a.x - b.x) = 4)
                   => answer[1] = Num(0, 2 * 4)

\* getDistance returned for two keys of different rows, columns and widths.
C17_Witness ==
    /\ DistanceReturned
    /\ KeyKnown(call.key1Id) /\ KeyKnown(call.key2Id)
    /\ keyMap(call.key1Id).width # keyMap(call.key2Id).width
    /\ keyMap(call.key1Id).y # keyMap(call.key2Id).y
    /\ answer[1].root # 0
    /\ answer[2] = answer[1]

\* The fingers of the normal search: those with no exclusive keys.
NormalFingers == { f \in DOMAIN fingerConfig : fingerConfig[f].exclusiveKeys = << >> }

\* keyPenalty(finger, key) + (0 on the finger's resting key, else the distance
\* from the resting key to the key)
Cost(f, keyCode) ==
    Plus(IF keyCode = fingerConfig[f].restingKey THEN Zero
         ELSE getDistance(keyCode, fingerConfig[f].restingKey),
         Penalty(fingerConfig[f], keyCode))

InNoExclusiveList(keyCode) ==
    \A f \in DOMAIN fingerConfig : keyCode \notin Range(fingerConfig[f].exclusiveKeys)

\* C18: for a key code in no finger's exclusive list, the totalScore scoreKeys
\* returns is the minimum, over the fingers without exclusive keys that have a
\* known distance, of the key penalty plus 0 on the finger's own resting key or
\* else the distance from the resting key; bestFinger and originKey belong to a
\* finger attaining it.
C18_ScoreIsMinimumOverFingers ==
    call.op = "scoreKeys" =>
        \A i \in 1..Len(answer) :
            InNoExclusiveList(answer[i].code) =>
                LET fingers == { f \in NormalFingers : RealDistance(f, answer[i].code) }
                IN  /\ answer[i].bestFinger \in fingers
                    /\ answer[i].originKey = fingerConfig[answer[i].bestFinger].restingKey
                    /\ answer[i].totalScore = Cost(answer[i].bestFinger, answer[i].code)
                    /\ \A f \in fingers :
                          ~Less(Cost(f, answer[i].code), answer[i].totalScore)

\* The fingers whose exclusive list has the key.
ExclusiveOwners(keyCode) ==
    { f \in DOMAIN fingerConfig : keyCode \in Range(fingerConfig[f].exclusiveKeys) }

\* C19: a key code in the exclusive list of exactly one finger F is dropped by
\* scoreKeys or returned with bestFinger F, also when F's resting key is not in
\* the key map; and no ScoredKey has a bestFinger whose non-empty exclusive
\* list omits the key.
C19_ExclusiveKeyOnlyToItsFinger ==
    call.op = "scoreKeys" =>
        \A i \in 1..Len(answer) :
            /\ Cardinality(ExclusiveOwners(answer[i].code)) = 1
                   => answer[i].bestFinger \in ExclusiveOwners(answer[i].code)
            /\ fingerConfig[answer[i].bestFinger].exclusiveKeys # << >>
                   => answer[i].bestFinger \in ExclusiveOwners(answer[i].code)

-----------------------------------------------------------------------------
(* Claims about the loop of optimizeSA *)

\* The current layout iteration i of run r started from.
CurrentBefore(r, i) == IF i = 1 THEN warmStart ELSE trajectory[r][i - 1].current

\* C21: in every iteration of optimizeSA a neighbor with delta <= 0 becomes the
\* current layout; a move with delta = 0 is accepted whatever the generator
\* returns.
C21_NonWorseningMoveAccepted ==
    \A r \in Runs : \A i \in 1..Len(trajectory[r]) :
        trajectory[r][i].delta <= 0 =>
            /\ trajectory[r][i].accepted
            /\ trajectory[r][i].current = trajectory[r][i].neighbor

\* An iteration whose neighbor differs from the current layout, has the same
\* friction and was accepted on a draw of the generator.
C21_Witness ==
    \E r \in Runs : \E i \in 1..Len(trajectory[r]) :
        /\ trajectory[r][i].delta = 0
        /\ trajectory[r][i].neighbor # CurrentBefore(r, i)
        /\ trajectory[r][i].accepted
        /\ trajectory[r][i].current = trajectory[r][i].neighbor

\* calculateFriction of a layout in the context of the run, times ten.
FrictionOf(l) == calculateFriction(l, frictionContext, penalties)

\* The frictions of the warm start and of the layouts run r has accepted.
SeenFrictions(r) ==
    { FrictionOf(warmStart) }
        \cup { FrictionOf(trajectory[r][i].neighbor) :
                 i \in { k \in 1..Len(trajectory[r]) : trajectory[r][k].accepted } }

\* C22: at every iteration boundary of optimizeSA bestScore is the friction of
\* best, is at most currentScore, and is the minimum of the frictions of the
\* warm start and of all layouts accepted so far; the returned layout's
\* friction is never above the warm start's.
C22_BestIsMinimumSeen ==
    \A r \in Runs :
        /\ phase[r] \in {"loop", "returned"} =>
              /\ bestScore[r] = FrictionOf(best[r])
              /\ currentScore[r] = FrictionOf(current[r])
              /\ bestScore[r] <= currentScore[r]
              /\ bestScore[r] \in SeenFrictions(r)
              /\ \A f \in SeenFrictions(r) : bestScore[r] <= f
        /\ phase[r] = "returned" =>
              /\ returned[r] = best[r]
              /\ FrictionOf(returned[r]) <= FrictionOf(warmStart)

\* A run that found a layout better than the warm start, went on to a worse
\* current layout and returned the better one.
C22_Witness ==
    \E r \in Runs :
        /\ phase[r] = "returned"
        /\ bestScore[r] < FrictionOf(warmStart)
        /\ bestScore[r] < currentScore[r]
        /\ returned[r] # current[r]

\* The calls whose termination is checked: three actions on the keys of
\* UnsortedEnvironment, under the hot options and under a cool start.
FairOptions ==
    HotOptions \cup { SAOptions(Ratio(4, 1), Ratio(1, 2), Ratio(1, 1), << 42 >>),
                      SubnormalOptions }

InitFairSA ==
    /\ InitSA
    /\ Len(actions) = 3
    /\ scoredKeys = UnsortedEnvironment.scoredKeys
    /\ options \in FairOptions

\* optimizeSA under a scheduler that lets every call run on.
FairSpecSA == InitFairSA /\ [][NextSA]_vars /\ WF_vars(NextSA)

\* initialTemp * coolingRate^n > minTemp
StillAbove(opts, n) ==
    opts.initialTemp.num * (opts.coolingRate.num ^ n) * opts.minTemp.den
        > opts.minTemp.num * opts.initialTemp.den * (opts.coolingRate.den ^ n)

\* The least n with initialTemp * coolingRate^n <= minTemp.
IterationsFor(opts) == CHOOSE n \in 0..(MaxHalvings + 1) :
                           ~StillAbove(opts, n) /\ \A k \in 0..(n - 1) : StillAbove(opts, k)

\* The call has returned after the number of iterations fixed by
\* (initialTemp, coolingRate, minTemp), with the temperature at initialTemp
\* times coolingRate once per iteration.
ReturnedOnSchedule(r) ==
    /\ phase[r] = "returned"
    /\ Len(trajectory[r]) = IterationsFor(options)
    /\ temp[r].num * options.initialTemp.den
          * (options.coolingRate.den ^ Len(trajectory[r]))
        = temp[r].den * options.initialTemp.num
          * (options.coolingRate.num ^ Len(trajectory[r]))

TemperatureStuck ==
    \E r \in Runs :
       /\ phase[r] = "loop"
       /\ Above(temp[r], options.minTemp)
       /\ Cooled(temp[r], options.coolingRate) = temp[r]

(***************************************************************************)
(* Claims about the warm start                                             *)
(***************************************************************************)

\* The layout after steps 1 and 2 of generateInitialLayout, and the actions
\* these steps left out, by descending useFrequency.
AfterExclusiveKeys ==
    LET nonMovement ==
            sortActionsByFrequency(
                FilterSeq(actions, { a \in Range(actions) : ~LayoutHas(movementMap, a.name) }))
    IN  [layout |-> AssignExclusiveKeys(
                        movementMap,
                        [i \in 1..Len(ObjectEntries(fingerConfig)) |->
                           fingerConfig[ObjectEntries(fingerConfig)[i]].exclusiveKeys],
                        nonMovement),
         nonMovement |-> nonMovement]

RemainingActions ==
    FilterSeq(AfterExclusiveKeys.nonMovement,
              { a \in Range(AfterExclusiveKeys.nonMovement) :
                  ~LayoutHas(AfterExclusiveKeys.layout, a.name) })

\* The scored keys still free after steps 1 and 2, by their place in the list.
FreeScoredKeys ==
    { k \in 1..Len(scoredKeys) : scoredKeys[k].code \notin LayoutKeys(AfterExclusiveKeys.layout) }

ScoreOfCode(code) ==
    scoredKeys[CHOOSE k \in 1..Len(scoredKeys) : scoredKeys[k].code = code].totalScore

\* The i-th remaining action holds a key whose score is the i-th lowest of
\* the free keys.
HoldsIthLowest(layout, i) ==
    /\ LayoutHas(layout, RemainingActions[i].name)
    /\ \E s \in { ScoreOfCode(LayoutGet(layout, RemainingActions[i].name)) } :
          /\ Cardinality({ k \in FreeScoredKeys : scoredKeys[k].totalScore < s }) <= i - 1
          /\ Cardinality({ k \in FreeScoredKeys : scoredKeys[k].totalScore <= s }) >= i

\* C24: in the warm start, the actions that steps 1 and 2 left out, taken in
\* descending useFrequency, hold the still-free scored keys in ascending
\* totalScore order, the i-th action the i-th lowest-scored free key,
\* whatever the order of the scoredKeys list.
C24_RemainingByAscendingScore ==
    initial.layout # << >> \/ actions # << >> =>
        \A i \in 1..Len(RemainingActions) :
           i <= Cardinality(FreeScoredKeys) => HoldsIthLowest(initial.layout, i)

\* The scoredKeys list is in ascending totalScore order.
ScoredKeysAscending ==
    \A k \in 1..(Len(scoredKeys) - 1) : scoredKeys[k].totalScore <= scoredKeys[k + 1].totalScore

(***************************************************************************)
(* Claims about the reach cap of the greedy allocator                      *)
(***************************************************************************)

\* The key of the binding passed the reach cap of allocateNonMovementAction
\* for the priority of its action.
AdmittedByCap(b) ==
    /\ ActionNamed(b.action).type # DIRECTIONAL
    /\ LockedKey(passLocks, b.action) = ""
    /\ ActionNamed(b.action).priority > 0

\* C25: for a fixed reach the cap 4 + (reach - 4) * (100 - p) / 99 does not
\* grow with the priority, for reach below 4 too: a key that admits an action
\* of priority p2 admits every lower positive priority on the same finger.
C25_CapTighterForHigherPriority ==
    \A i \in 1..Len(bindings) :
       AdmittedByCap(bindings[i]) =>
          \A p1 \in 1..(ActionNamed(bindings[i].action).priority - 1) :
             \A sk \in { k \in Range(scoredKeys) : k.code = bindings[i].key } :
                ~ExceedsCap(sk.totalScore, fingerConfig[sk.bestFinger].reach, p1)

(***************************************************************************)
(* One call of any of the entry points                                     *)
(***************************************************************************)

InitCalls == Init \/ InitSA \/ InitFriction

NextCalls ==
    \/ Next
    \/ NextSA
    \/ (pc = "idle" /\ (\A r \in Runs : phase[r] = "idle") /\ NextFriction)

\* A call of Optimizer.allocate, of optimizeSA (twice) or of calculateFriction.
SpecCalls == InitCalls /\ [][NextCalls]_vars

\* The last iteration of run r left its layouts alone: a refused neighbor
\* changes nothing, and best changes to the neighbor only.
LayoutsKept(r) ==
    trajectory'[r] # trajectory[r] =>
        /\ ~trajectory'[r][Len(trajectory'[r])].accepted => current'[r] = current[r]
        /\ best'[r] \in { best[r], trajectory'[r][Len(trajectory'[r])].neighbor }

\* C26: no step of allocate, of optimizeSA or of calculateFriction changes
\* what it was given: the action list, the scoredKeys list, the
\* configurations and the caller's lock map stay as they were (the locks of
\* the repair go into passLocks, a copy), a layout handed to mutate and swap
\* is still the current layout when the neighbor is refused, and
\* calculateFriction leaves the layouts and the context alone.
C26_InputsLeftUnchanged ==
    [][/\ UNCHANGED << actions, scoredKeys, fingerConfig, movementConfig, availableFingers,
                       lockedBinds >>
       /\ UNCHANGED << frictionContext, layouts, initial >>
       /\ \A r \in Runs : LayoutsKept(r)]_vars

\* allocate returned after a repair that added a lock, which the caller's
\* map does not hold.
C26_Witness ==
    /\ Done
    /\ lockedBinds # EmptyMap
    /\ passLocks # lockedBinds
    /\ result # << >>

(***************************************************************************)
(* Claims about concurrency blocking in a greedy pass                      *)
(***************************************************************************)

\* bindings[j] went through allocateNonMovementAction.
ScannedFor(j) ==
    /\ ActionNamed(bindings[j].action).type # DIRECTIONAL
    /\ LockedKey(passLocks, bindings[j].action) = ""

\* C27: within a pass, the best finger of the key an unlocked non-DIRECTIONAL
\* action A is bound to is none of the fingers recorded for an action B bound
\* before it when A.concurrentWith names B or B.concurrentWith names A, B
\* being locked, DIRECTIONAL or neither.
C27_BlockedInBothDirections ==
    \A j \in 1..Len(bindings) :
       ScannedFor(j) =>
          \A i \in 1..(j - 1) :
             Concurrent(ActionNamed(bindings[j].action), ActionNamed(bindings[i].action))
                => BestFingersOf(bindings[j].key)
                      \cap Range(actionFingerMap[bindings[i].action]) = {}

\* An action bound after a locked or DIRECTIONAL action whose list names it,
\* its own list not naming that action, with a key of that action's finger
\* still unbound.
C27_Witness ==
    \E j \in 1..Len(bindings) : \E i \in 1..(j - 1) :
       /\ ScannedFor(j)
       /\ ~ScannedFor(i)
       /\ bindings[j].action \in Range(ActionNamed(bindings[i].action).concurrentWith)
       /\ bindings[i].action \notin Range(ActionNamed(bindings[j].action).concurrentWith)
       /\ \E sk \in Range(scoredKeys) :
             /\ sk.bestFinger \in Range(actionFingerMap[bindings[i].action])
             /\ sk.code \notin boundKeys

(***************************************************************************)
(* Claims about the running finger load of a greedy pass                   *)
(***************************************************************************)

\* The useFrequency of bindings[i] when its action counts for finger f: the
\* first finger recorded for it, which is the first finger of the axis for
\* a DIRECTIONAL action and the best finger of the key for the others.
LoadShare(i, f) ==
    IF actionFingerMap[bindings[i].action][1] = f
    THEN ActionNamed(bindings[i].action).useFrequency
    ELSE 0

\* C30: at every point of a pass the running load of each finger is the sum
\* of useFrequency of the actions bound so far to that finger, those bound
\* through a lock included.
C30_LoadIsSumOfBound ==
    pc \in {"pass1", "pass2"} =>
        \A f \in Fingers :
           fingerLoad[f] = SumSeq([i \in 1..Len(bindings) |-> LoadShare(i, f)])

\* No action of the pass is locked.
NothingLocked == \A i \in 1..Len(bindings) : LockedKey(passLocks, bindings[i].action) = ""

(***************************************************************************)
(* Claims about the layouts of the search                                  *)
(***************************************************************************)

ActionSet(layout) == { layout[i].action : i \in 1..Len(layout) }

\* How often each key occurs in the layout.
KeyBag(layout) ==
    [k \in LayoutKeys(layout) |-> Cardinality({ i \in 1..Len(layout) : layout[i].key = k })]

SameActionsAndKeys(layout) ==
    /\ ActionSet(layout) = ActionSet(initial.layout)
    /\ KeyBag(layout) = KeyBag(initial.layout)

\* C28: every layout that optimizeSA holds as current or best, proposes as
\* neighbor or returns has the action names and the multiset of keys of the
\* warm start: the search never assigns a key the warm start left unused.
C28_SearchPermutesWarmStartKeys ==
    \A r \in Runs :
       phase[r] \in {"loop", "returned"} =>
          /\ SameActionsAndKeys(current[r])
          /\ SameActionsAndKeys(best[r])
          /\ \A i \in 1..Len(trajectory[r]) : SameActionsAndKeys(trajectory[r][i].neighbor)
          /\ phase[r] = "returned" => SameActionsAndKeys(returned[r])

\* A call returned a layout other than its warm start after an accepted
\* conflict move that changed the layout, while some scored key was never in
\* use.
C28_Witness ==
    \E r \in Runs :
       /\ phase[r] = "returned"
       /\ returned[r] # initial.layout
       /\ \E i \in 1..Len(trajectory[r]) :
             /\ trajectory[r][i].accepted
             /\ trajectory[r][i].move = "conflict"
             /\ trajectory[r][i].neighbor # CurrentBefore(r, i)
       /\ \E sk \in Range(scoredKeys) : sk.code \notin LayoutKeys(initial.layout)

(***************************************************************************)
(* Claims about scored keys in the friction context                        *)
(***************************************************************************)

\* The context calculateFriction gets when the scored keys are the ones
\* scoreKeys has produced so far for the same finger configuration.
ScoredContext == buildFrictionContext(actions, answer, fingerConfig, movementConfig)

ExclusiveListsDisjoint ==
    \A f, g \in DOMAIN fingerConfig :
       f # g => Range(fingerConfig[f].exclusiveKeys) \cap Range(fingerConfig[g].exclusiveKeys) = {}

RestingKeysKnown == \A f \in DOMAIN fingerConfig : KeyKnown(fingerConfig[f].restingKey)

\* The codes a layout may hold: the codes scored and the exclusive keys.
LayoutCodes ==
    Range(call.allKeyCodes)
      \cup UNION { Range(fingerConfig[f].exclusiveKeys) : f \in DOMAIN fingerConfig }

\* C29: with the scored keys of scoreKeys under the same finger
\* configuration, exclusive lists that are pairwise disjoint and resting
\* keys that are all keys of the key map, the exclusive-finger mismatch term
\* of calculateFriction is 0 for every key a layout may hold.
C29_NoExclusiveMismatchForScoredKeys ==
    (call.op = "scoreKeys" /\ ExclusiveListsDisjoint /\ RestingKeysKnown) =>
        \A code \in LayoutCodes :
           ExclusiveMismatchTerm(keyToFinger(ScoredContext, code), code, ScoredContext) = 0

\* scoreKeys returned keys of fingers with exclusive lists and keys of
\* fingers without, under disjoint lists and known resting keys.
C29_Witness ==
    /\ ScoredReturned
    /\ ExclusiveListsDisjoint
    /\ RestingKeysKnown
    /\ \E sk \in Range(answer) : sk.bestFinger \in DOMAIN ScoredContext.fingerExclusiveKeys
    /\ \E sk \in Range(answer) : sk.bestFinger \notin DOMAIN ScoredContext.fingerExclusiveKeys
    /\ \E code \in LayoutCodes : keyToFinger(ScoredContext, code) = Undefined

=============================================================================
